---- MODULE Spec2Model ----
(***************************************************************************)
(* carbonapi: the /render request pipeline (renderHandler), the bytes      *)
(* caches in front of it, the fan-out of Render calls under the global     *)
(* limiter, the query-cache key and the get of the memcached cache.        *)
(***************************************************************************)
EXTENDS Integers, Sequences, FiniteSets, TLC

(***************************************************************************)
(* Bounds of the model.                                                    *)
(***************************************************************************)
NumReqs == 2
MaxArrivals == 2
LimiterCap == 1
MaxTicks == 2
MaxParams == 2
MaxEdits == 2
MaxMcCalls == 2
MaxValues == 3
MaxOps == 3

(***************************************************************************)
(* Program constants.                                                      *)
(***************************************************************************)
DefaultCacheTimeout == 60
FindCacheTTL == 300
DaySeconds == 86400
HourShift == 3600
TickStep == DefaultCacheTimeout

Reqs == 1..NumReqs

SeqToSet(s) == {s[i] : i \in 1..Len(s)}

(***************************************************************************)
(* The zipper's metric tree: what Find answers for each glob when it       *)
(* succeeds.  A match is a path and whether it is a leaf.                  *)
(***************************************************************************)
Leaf(p) == [path |-> p, isLeaf |-> TRUE]
NonLeaf(p) == [path |-> p, isLeaf |-> FALSE]

ZipperMatches(glob) ==
    CASE glob = "x"      -> <<Leaf("x")>>
      [] glob = "a.*"    -> <<Leaf("a.b"), NonLeaf("a.d"), Leaf("a.c")>>
      [] glob = "a.b"    -> <<Leaf("a.b")>>
      [] glob = "a.*.c"  -> <<Leaf("a.b.c"), Leaf("a.d.c")>>
      [] glob = "*"      -> <<Leaf("x"), NonLeaf("a")>>
      [] OTHER           -> <<>>

GlobResponse(glob) == [name |-> glob, matches |-> ZipperMatches(glob)]

\* glob.Marshal() / glob.Unmarshal(): the protobuf encoding of a GlobResponse.
Marshal(glob) == <<"pb", glob.name, glob.matches>>
UnmarshalOkAlways(b) == TRUE
UnmarshalOk(b) == Len(b) = 3 /\ b[1] = "pb"
Unmarshal(b) == [name |-> b[2], matches |-> b[3]]

(***************************************************************************)
(* The expression language: parseExpr, expr.metrics() and evalExpr on the  *)
(* targets the model's requests use.                                       *)
(***************************************************************************)
MetricRequest(m, f, u) == [metric |-> m, from |-> f, until |-> u]

\* parseExpr(target) gives (exp, e, err): e is the remainder the parser did
\* not consume, err its error.  An unfinished call is an error with nothing
\* left over; a closing parenthesis too many is left over without an error.
ParseExpr(t) ==
    CASE t = "scale(x," -> [err |-> "missing argument", e |-> ""]
      [] t = "x)"       -> [err |-> "", e |-> ")"]
      [] OTHER          -> [err |-> "", e |-> ""]

\* target[0:len(target)-len(e)]
ParsedSoFar(t, e) ==
    CASE e = ""              -> t
      [] t = "x)" /\ e = ")" -> "x"
      [] OTHER               -> ""

\* parseExpr(target): ok is (err == nil && e == "").
ParseOk(t) == ParseExpr(t).err = "" /\ ParseExpr(t).e = ""

\* exp.metrics(): the metric requests of the tree, with the shifts of the
\* nodes (timeShift) folded in.
ExprMetrics(t) ==
    CASE t \in {"x", "scale(x,2)", "scale(x,3)", "scale(x)"}
                                 -> <<MetricRequest("x", 0, 0)>>
      [] t = "timeShift(x,-1h)"  -> <<MetricRequest("x", -HourShift, -HourShift)>>
      [] t = "a.*"               -> <<MetricRequest("a.*", 0, 0)>>
      [] t = "a.b"               -> <<MetricRequest("a.b", 0, 0)>>
      [] t = "none.*"            -> <<MetricRequest("none.*", 0, 0)>>
      [] t = "group(x,a.b)"      -> <<MetricRequest("x", 0, 0), MetricRequest("a.b", 0, 0)>>
      [] OTHER                   -> <<>>

\* evalExpr panics on a call with a missing argument.
EvalPanics(t) == t = "scale(x)"

MapGet(mm, k) == IF k \in DOMAIN mm THEN mm[k] ELSE <<>>

RECURSIVE FlatSeries(_, _, _, _, _)
FlatSeries(label, ms, from32, until32, mm) ==
    IF ms = <<>> THEN <<>>
    ELSE LET m == Head(ms)
             got == MapGet(mm, MetricRequest(m.metric, m.from + from32, m.until + until32))
         IN [i \in 1..Len(got) |-> [target |-> label, series |-> got[i]]]
            \o FlatSeries(label, Tail(ms), from32, until32, mm)

\* evalExpr(exp, from32, until32, metricMap) when it does not panic: one
\* output series per series of each metric the expression reads.
EvalExpr(label, t, from32, until32, mm) ==
    FlatSeries(label, ExprMetrics(t), from32, until32, mm)

\* truthyBool
TruthyBool(s) == s \in {"1", "true", "True", "t", "y", "yes"}

\* strconv.Atoi on the numerals the model's requests carry.
AtoiOk(s) == s \in {"10", "60", "100", "200"}
Atoi(s) == CASE s = "10" -> 10 [] s = "60" -> 60 [] s = "100" -> 100 [] s = "200" -> 200
             [] OTHER -> 0

\* dateParamToEpoch(s, d): the default for an empty parameter, else the epoch.
DateParamToEpoch(s, d) == IF s = "" THEN d ELSE IF AtoiOk(s) THEN Atoi(s) ELSE d

(***************************************************************************)
(* The request's form: a query string is a sequence of <<name, value>>     *)
(* pairs; r.ParseForm() makes of it a map from names to the values in      *)
(* their order of appearance.                                              *)
(***************************************************************************)
FormKeys(q) == {q[i][1] : i \in 1..Len(q)}

RECURSIVE ValuesOf(_, _)
ValuesOf(q, k) ==
    IF q = <<>> THEN <<>>
    ELSE (IF Head(q)[1] = k THEN <<Head(q)[2]>> ELSE <<>>) \o ValuesOf(Tail(q), k)

ParseForm(q) == [k \in FormKeys(q) |-> ValuesOf(q, k)]

\* r.Form["target"]
FormValues(form, k) == IF k \in DOMAIN form THEN form[k] ELSE <<>>
\* r.FormValue(k): the first value, "" when there is none.
FormValue(form, k) == IF k \in DOMAIN form /\ Len(form[k]) > 0 THEN form[k][1] ELSE ""
\* r.Form.Del(k)
FormDel(form, k) == [x \in DOMAIN form \ {k} |-> form[x]]

\* The parameter names in the byte order sort.Strings gives them.
KeyOrder == <<"_salt", "_t", "_ts", "cacheTimeout", "format", "from", "jsonp",
              "maxDataPoints", "noCache", "rawData", "rawdata", "target", "until">>

RECURSIVE EncodeFrom(_, _)
EncodeFrom(form, i) ==
    IF i > Len(KeyOrder) THEN <<>>
    ELSE LET k == KeyOrder[i]
         IN (IF k \in DOMAIN form
             THEN [j \in 1..Len(form[k]) |-> <<k, form[k][j]>>]
             ELSE <<>>) \o EncodeFrom(form, i + 1)

\* r.Form.Encode(): the names sorted, each name's values in their order.
Encode(form) == EncodeFrom(form, 1)

CacheKeyKeepsTs(q) ==
    Encode(FormDel(FormDel(FormDel(FormDel(ParseForm(q), "noCache"), "jsonp"), "_salt"), "_t"))

\* The query-cache key of renderHandler.
CacheKey(q) ==
    Encode(FormDel(FormDel(FormDel(FormDel(FormDel(ParseForm(q),
        "noCache"), "jsonp"), "_salt"), "_ts"), "_t"))

\* The format renderHandler settles on.
FormatOf(form) ==
    LET f == FormValue(form, "format")
    IN IF f = "" /\ (TruthyBool(FormValue(form, "rawData")) \/ TruthyBool(FormValue(form, "rawdata")))
       THEN "raw"
       ELSE IF f = "" THEN "png" ELSE f

CacheTimeoutOf(form) ==
    LET tstr == FormValue(form, "cacheTimeout")
    IN IF tstr # "" /\ AtoiOk(tstr) THEN Atoi(tstr) ELSE DefaultCacheTimeout

MaxDataPointsOf(form) ==
    LET mstr == FormValue(form, "maxDataPoints")
    IN IF mstr # "" /\ AtoiOk(mstr) THEN Atoi(mstr) ELSE 0

JsonpOf(form) == IF FormValue(form, "format") = "json" THEN FormValue(form, "jsonp") ELSE ""

UseCacheOf(form) == TruthyBool(FormValue(form, "noCache")) = FALSE

(***************************************************************************)
(* Response encoders and writeResponse.                                    *)
(***************************************************************************)
Formats == {"json", "protobuf", "raw", "csv", "pickle", "png"}

\* marshalJSON, marshalRaw, ...: the body of a result list in a format; a
\* format outside the switch leaves the body nil.
MarshalBody(format, results) ==
    IF format \in Formats THEN <<format, results>> ELSE <<>>

ContentType(format, jsonp) ==
    CASE format = "json" /\ jsonp # "" -> "text/javascript"
      [] format = "json"               -> "application/json"
      [] format = "protobuf"           -> "application/x-protobuf"
      [] format = "raw"                -> "text/plain"
      [] format = "pickle"             -> "application/pickle"
      [] format = "csv"                -> "text/csv"
      [] format = "png"                -> "image/png"
      [] OTHER                         -> ""

NoResponse == [status |-> 0, ctype |-> "", jsonp |-> "", body |-> <<>>]

WriteResponseUnwrapped(b, format, jsonp) ==
    IF format \in Formats
    THEN [status |-> 200, ctype |-> ContentType(format, ""), jsonp |-> "", body |-> b]
    ELSE [status |-> 200, ctype |-> "", jsonp |-> "", body |-> <<>>]

\* writeResponse(w, b, format, jsonp): what the client receives; a jsonp
\* that is not empty stands for the body written as jsonp(body).
WriteResponse(b, format, jsonp) ==
    IF format \in Formats
    THEN [status |-> 200, ctype |-> ContentType(format, jsonp),
          jsonp |-> IF format = "json" THEN jsonp ELSE "", body |-> b]
    ELSE [status |-> 200, ctype |-> "", jsonp |-> "", body |-> <<>>]

BuildParseErrorStringNoRemainder(target, e, err) ==
    <<<<"Status", "Bad Request">>, <<"Target", target>>>>
    \o (IF err # "" THEN <<<<"Error", err>>>> ELSE <<>>)

\* buildParseErrorString(target, e, err): the lines of the message.
BuildParseErrorString(target, e, err) ==
    <<<<"Status", "Bad Request">>, <<"Target", target>>>>
    \o (IF err # "" THEN <<<<"Error", err>>>> ELSE <<>>)
    \o (IF e # "" THEN <<<<"Parsed so far", ParsedSoFar(target, e)>>,
                         <<"Could not parse", e>>>>
        ELSE <<>>)

\* http.Error(w, msg, http.StatusBadRequest)
BadRequest(msg) == [status |-> 400, ctype |-> "text/plain", jsonp |-> "", body |-> <<msg>>]

(***************************************************************************)
(* The bytes caches.  A cache is a map from keys to entries; an entry      *)
(* holds the bytes, the time until which it is valid and the TTL it was    *)
(* stored with.  get answers with a record: ok, the bytes, and whether the *)
(* memcached deadline fired.                                               *)
(***************************************************************************)
CacheTypes == {"null", "mem", "memcache"}

CacheEntry(v, expire, t) == [val |-> v, validUntil |-> t + expire, ttl |-> expire]
Miss == [ok |-> FALSE, val |-> <<>>, timeout |-> FALSE]
TimedOut == [ok |-> FALSE, val |-> <<>>, timeout |-> TRUE]
Hit(v) == [ok |-> TRUE, val |-> v, timeout |-> FALSE]

Fresh(c, k, t) == k \in DOMAIN c /\ ~(c[k].validUntil < t)

Store(c, k, e) == [x \in DOMAIN c \cup {k} |-> IF x = k THEN e ELSE c[x]]

\* nullCache
NullCacheGet(c, k, t) == {Miss}
NullCacheSet(c, k, v, expire, t) == {c}

\* expireCache
ExpireCacheGet(c, k, t) == {IF Fresh(c, k, t) THEN Hit(c[k].val) ELSE Miss}
ExpireCacheSet(c, k, v, expire, t) == {Store(c, k, CacheEntry(v, expire, t))}

\* memcachedCache: the key is hashed; a get ends with the item, with an error
\* (a miss is one) or on the deadline; a set is sent in the background and
\* may be lost.
McKey(k) == <<"md5", k>>
MemcachedGet(c, k, t) ==
    {Miss, TimedOut} \cup (IF Fresh(c, McKey(k), t) THEN {Hit(c[McKey(k)].val)} ELSE {})
MemcachedSet(c, k, v, expire, t) == {c, Store(c, McKey(k), CacheEntry(v, expire, t))}

\* bytesCache.get / bytesCache.set of the configured variant: the possible
\* answers of a get, the possible caches after a set.
CacheGet(type, c, k, t) ==
    CASE type = "null"     -> NullCacheGet(c, k, t)
      [] type = "mem"      -> ExpireCacheGet(c, k, t)
      [] type = "memcache" -> MemcachedGet(c, k, t)

CacheSet(type, c, k, v, expire, t) ==
    CASE type = "null"     -> NullCacheSet(c, k, v, expire, t)
      [] type = "mem"      -> ExpireCacheSet(c, k, v, expire, t)
      [] type = "memcache" -> MemcachedSet(c, k, v, expire, t)

(***************************************************************************)
(* The requests the clients send.                                          *)
(***************************************************************************)
P(k, v) == <<k, v>>

Queries ==
    { <<P("target", "scale(x,2)"), P("target", "scale(x,3)"), P("format", "json")>>,
      <<P("noCache", "1"), P("target", "x"), P("target", "timeShift(x,-1h)"),
        P("format", "json"), P("jsonp", "cb")>>,
      <<P("target", "a.*"), P("target", "a.b"), P("format", "raw"), P("cacheTimeout", "10")>>,
      <<P("target", "x"), P("target", "scale(x)"), P("target", "a.b"),
        P("format", "json"), P("cacheTimeout", "abc")>>,
      <<P("target", "x"), P("target", "scale(x,"), P("format", "json")>>,
      <<P("target", "none.*"), P("format", "json")>> }

\* The requests of the clients that repeat a request after a while.
SeqQueries ==
    { <<P("target", "x"), P("format", "json")>>,
      <<P("format", "json"), P("noCache", "1"), P("target", "x")>>,
      <<P("target", "x"), P("format", "json"), P("cacheTimeout", "10")>>,
      <<P("target", "none.*"), P("format", "json")>> }

\* The requests of the clients that send at the same time: they fan out.
ConcQueries ==
    { <<P("target", "a.*"), P("format", "raw")>> }

\* The requests of the clients that get something wrong: a target that
\* does not parse, a format that does not exist, no target, an empty range.
ErrQueries ==
    { <<P("target", "x"), P("target", "x)"), P("target", "a.b"), P("format", "json")>>,
      <<P("target", "scale(x,"), P("target", "x"), P("format", "json")>>,
      <<P("target", "x"), P("format", "xml")>>,
      <<P("format", "json")>>,
      <<P("target", "x"), P("format", "json"), P("from", "60")>>,
      <<P("target", "x"), P("format", "json"), P("from", "10"), P("until", "10")>> }

\* The /render requests sent through corsHandler.
CorsQueries ==
    { <<P("target", "x"), P("format", "json")>>,
      <<P("format", "json")>> }

\* The /render requests sent to a server whose find cache holds bytes that
\* do not decode.
FailQueries ==
    { <<P("target", "x"), P("format", "json")>>,
      <<P("target", "x"), P("target", "a.b"), P("format", "json")>>,
      <<P("target", "x"), P("format", "json"), P("noCache", "1")>> }

\* The requests of the clients that send the same query with another jsonp
\* callback, or with and without noCache.
PairQueries ==
    { <<P("target", "x"), P("format", "json")>>,
      <<P("target", "x"), P("format", "json"), P("jsonp", "cb")>>,
      <<P("target", "x"), P("format", "json"), P("jsonp", "cb2")>>,
      <<P("target", "x"), P("format", "json"), P("noCache", "1")>>,
      <<P("target", "x"), P("format", "raw"), P("jsonp", "cb")>> }

QueriesOf(m) ==
    CASE m = "one"  -> Queries
      [] m = "seq"  -> SeqQueries
      [] m = "conc" -> ConcQueries
      [] m = "err"  -> ErrQueries
      [] m = "find" -> CorsQueries
      [] m = "fail" -> FailQueries
      [] m = "pair" -> PairQueries
      [] m = "par"  -> Queries
      [] OTHER      -> {}

(***************************************************************************)
(* State.                                                                  *)
(***************************************************************************)
VARIABLES
    mode,         \* the clients: "one" request, requests in "seq"uence, or "conc"urrently
    cacheType,    \* the -cache flag: which bytesCache variant is configured
    now,          \* timeNow(), in seconds
    queryCache,   \* the query cache
    findCache,    \* the find cache
    limiter,      \* Limiter: the permits held
    tasks,        \* the Render goroutines: a sequence of task records
    metrics,      \* Metrics: the expvar counters
    req,          \* per request slot: the locals of renderHandler
    arrivals,     \* requests received so far
    lookups,      \* query-cache lookups performed so far
    served,       \* the requests answered so far: key, time, what was stored
    kc,           \* two query strings and the cache keys renderHandler gives them
    mc,           \* memcachedCache.get: the caller, its goroutines, channels and timers
    fh,           \* one HTTP exchange at corsHandler, and findHandler's locals
    md            \* one MetricData of a graph: values, valuesPerPoint, aggregatedValues

renderVars == <<mode, cacheType, now, queryCache, findCache, limiter, tasks, metrics, req,
                arrivals, lookups, served>>
vars == <<renderVars, kc, mc, fh, md>>

Calls == 1..MaxMcCalls

\* No pair of query strings under study.
KeyIdle == [pc |-> "off", a |-> <<>>, b |-> <<>>, edits |-> {}, n |-> 0,
            keyA |-> <<>>, keyB |-> <<>>]

\* No memcachedCache.get under study.
McIdle ==
    [pc |-> "off", call |-> 0, server |-> "",
     bg |-> [c \in Calls |-> "none"], item |-> [c \in Calls |-> ""],
     err |-> [c \in Calls |-> FALSE], done |-> [c \in Calls |-> 0],
     timer |-> [c \in Calls |-> "none"], late |-> [c \in Calls |-> FALSE],
     sel |-> [c \in Calls |-> {}], rets |-> <<>>]

\* No exchange at corsHandler yet.
FindIdle ==
    [pc |-> "idle", endpoint |-> "", method |-> "", query |-> "", format |-> "",
     jsonp |-> "", header |-> {}, runs |-> 0, finds |-> <<>>,
     resp |-> [status |-> 0, ctype |-> "", jsonp |-> "", body |-> <<>>]]

\* No metricData under study.
MdIdle == [pc |-> "off"]

NoGlob == [name |-> "", matches |-> <<>>]
NoFetch == MetricRequest("", 0, 0)

\* The locals of a handler that is not running.
IdleReq ==
    [pc |-> "idle", query |-> <<>>, targets |-> <<>>, from |-> "", until |-> "",
     format |-> "", useCache |-> TRUE, jsonp |-> "", cacheTimeout |-> 0,
     maxDataPoints |-> 0, cacheKey |-> <<>>, from32 |-> 0, until32 |-> 0,
     ti |-> 0, mets |-> <<>>, mi |-> 0, mfetch |-> NoFetch, glob |-> NoGlob,
     gi |-> 0, leaves |-> 0, got |-> 0, rch |-> <<>>, rchCap |-> 0,
     metricMap |-> <<>>, results |-> <<>>, zipperRequests |-> 0,
     resp |-> NoResponse,
     \* history of the request, kept for the properties
     \*   hit: answered from the query cache; lookupNo, checkedAt: when it looked
     \*   findLog: the globs of the Zipper.Find calls
     \*   renderLog: the <<path, from, until>> of the Zipper.Render calls
     \*   fetchLog: one record per fetch of a metric request
     \*   findSets, setLog: the findCache.set and queryCache.set calls
     \*   evalLog: per target evaluated, "ok" or "panic"
     hit |-> FALSE, lookupNo |-> 0, checkedAt |-> 0, findLog |-> <<>>,
     renderLog |-> <<>>, fetchLog |-> <<>>, setLog |-> <<>>, findSets |-> <<>>,
     evalLog |-> <<>>]

Running(rq) == rq.pc \notin {"idle", "done"}

InitWith(m, types) ==
    /\ mode = m
    /\ cacheType \in types
    /\ now = 0
    /\ queryCache = <<>>
    /\ findCache = <<>>
    /\ limiter = 0
    /\ tasks = <<>>
    /\ metrics = [requests |-> 0, requestCacheHits |-> 0, findRequests |-> 0,
                  findCacheHits |-> 0, renderRequests |-> 0, memcacheTimeouts |-> 0]
    /\ req = [r \in Reqs |-> IdleReq]
    /\ arrivals = 0
    /\ lookups = 0
    /\ served = {}
    /\ kc = KeyIdle
    /\ mc = McIdle
    /\ fh = FindIdle
    /\ md = MdIdle

Init == InitWith("one", CacheTypes)

Bump(m, f, n) == [m EXCEPT ![f] = @ + n]
Timeouts(out) == IF out.timeout THEN 1 ELSE 0

\* The handler returns: its locals are dropped, the response and the
\* request's history stay.
Ended(rq, resp) ==
    [rq EXCEPT !.pc = "done", !.resp = resp, !.mets = <<>>, !.mi = 0, !.ti = 0,
               !.mfetch = NoFetch, !.glob = NoGlob, !.gi = 0, !.leaves = 0,
               !.got = 0, !.rch = <<>>, !.rchCap = 0, !.metricMap = <<>>]

\* The history record of a request answered: its query and key, when it
\* ended (the time, the number of lookups made so far), its status, whether
\* it was a query-cache hit, and the body it left in the query cache, if any.
ServedRec(rq, n, status, hit, stored, body) ==
    [key |-> rq.cacheKey, query |-> rq.query, useCache |-> rq.useCache, at |-> now,
     n |-> n, ttl |-> rq.cacheTimeout, status |-> status, hit |-> hit,
     stored |-> stored, body |-> body]

\* The cache holds the bytes under the key.
Holds(type, c, k, v) ==
    CASE type = "null"     -> FALSE
      [] type = "mem"      -> k \in DOMAIN c /\ c[k].val = v
      [] type = "memcache" -> McKey(k) \in DOMAIN c /\ c[McKey(k)].val = v

(***************************************************************************)
(* renderHandler, step by step.                                            *)
(***************************************************************************)

\* The handler is entered: the counter, the parameters, the cache key.
\* renderHandler from its entry to the cache key.
RenderEnter(r, q) ==
    /\ ~Running(req[r])
    /\ \A s \in Reqs : s < r => Running(req[s])
    /\ mode # "conc" => \A s \in Reqs : ~Running(req[s])
    /\ q \in QueriesOf(mode)
    /\ arrivals < (IF mode \in {"one", "par"} THEN 1 ELSE MaxArrivals)
    /\ LET form == ParseForm(q)
       IN req' = [req EXCEPT ![r] =
                    [IdleReq EXCEPT !.pc = "lookup", !.query = q,
                                    !.targets = FormValues(form, "target"),
                                    !.from = FormValue(form, "from"),
                                    !.until = FormValue(form, "until"),
                                    !.format = FormatOf(form),
                                    !.useCache = UseCacheOf(form),
                                    !.jsonp = JsonpOf(form),
                                    !.cacheTimeout = CacheTimeoutOf(form),
                                    !.maxDataPoints = MaxDataPointsOf(form),
                                    !.cacheKey = CacheKey(q)]]
    /\ metrics' = Bump(metrics, "requests", 1)
    /\ arrivals' = arrivals + 1
    /\ UNCHANGED <<kc, mc, md, mode, cacheType, now, queryCache, findCache, limiter, tasks, lookups, served>>

\* A GET request reaches renderHandler.
Arrive(r, q) == RenderEnter(r, q) /\ UNCHANGED fh

ServeAlways(useCache, out) == out.ok
ServeFromCacheInverted(useCache, out) == ~useCache /\ out.ok

\* if response, ok := queryCache.get(cacheKey); useCache && ok
ServeFromCache(useCache, out) == useCache /\ out.ok

\* The query-cache lookup, then the time range.
Lookup(r) ==
    /\ req[r].pc = "lookup"
    /\ lookups' = lookups + 1
    /\ \E out \in CacheGet(cacheType, queryCache, req[r].cacheKey, now) :
         LET rq == [req[r] EXCEPT !.lookupNo = lookups + 1, !.checkedAt = now]
             from32 == DateParamToEpoch(rq.from, now - DaySeconds)
             until32 == DateParamToEpoch(rq.until, now)
         IN IF ServeFromCache(rq.useCache, out)
            THEN /\ metrics' = Bump(metrics, "requestCacheHits", 1)
                 /\ req' = [req EXCEPT ![r] =
                              Ended([rq EXCEPT !.hit = TRUE],
                                    WriteResponse(out.val, rq.format, rq.jsonp))]
                 /\ served' = served \cup {ServedRec(rq, lookups + 1, 200, TRUE, FALSE, <<>>)}
            ELSE /\ metrics' = Bump(metrics, "memcacheTimeouts", Timeouts(out))
                 /\ IF from32 = until32
                    THEN /\ req' = [req EXCEPT ![r] =
                                      Ended(rq, BadRequest("Invalid empty time range"))]
                         /\ served' = served \cup {ServedRec(rq, lookups + 1, 400, FALSE, FALSE, <<>>)}
                    ELSE /\ req' = [req EXCEPT ![r] =
                                      [rq EXCEPT !.pc = "target", !.ti = 1,
                                                 !.from32 = from32, !.until32 = until32]]
                         /\ UNCHANGED served
    /\ UNCHANGED <<kc, mc, fh, md, mode, cacheType, now, queryCache, findCache, limiter, tasks, arrivals>>

\* The head of the loop over the targets: parseExpr and exp.metrics().
Target(r) ==
    /\ req[r].pc = "target"
    /\ LET rq == req[r]
       IN IF rq.ti > Len(rq.targets)
          THEN /\ req' = [req EXCEPT ![r].pc = "encode"]
               /\ UNCHANGED served
          ELSE LET t == rq.targets[rq.ti]
               IN IF ~ParseOk(t)
                  THEN /\ req' = [req EXCEPT ![r] =
                                    Ended(rq, BadRequest(BuildParseErrorString(t,
                                              ParseExpr(t).e, ParseExpr(t).err)))]
                       /\ served' = served \cup {ServedRec(rq, lookups, 400, FALSE, FALSE, <<>>)}
                  ELSE /\ req' = [req EXCEPT ![r] =
                                    [rq EXCEPT !.pc = "metric", !.mets = ExprMetrics(t),
                                               !.mi = 1]]
                       /\ UNCHANGED served
    /\ UNCHANGED <<kc, mc, fh, md, mode, cacheType, now, queryCache, findCache, limiter, tasks, metrics,
                   arrivals, lookups>>

AlreadyFetchedNever(mm, mfetch) == FALSE

\* if _, ok := metricMap[mfetch]; ok { continue }
AlreadyFetched(mm, mfetch) == mfetch \in DOMAIN mm

UseFindCacheAlways(useCache, out) == out.ok

\* if response, ok := findCache.get(m.metric); useCache && ok
UseFindCache(useCache, out) == useCache /\ out.ok

\* The history record of a fetch: the target it is for, the metric request,
\* whether the find cache answered, how Zipper.Find ended ("none": not
\* called), the leaves rendered, the leaves whose Render succeeded or failed,
\* the series received.
FetchRec(ti, mfetch, cached, find) ==
    [ti |-> ti, fetch |-> mfetch, cached |-> cached, find |-> find, renders |-> <<>>,
     okPaths |-> <<>>, failPaths |-> <<>>, recvOk |-> 0]

UpdLast(log, f, v) == [log EXCEPT ![Len(log)] = [@ EXCEPT ![f] = v]]
Last(log) == log[Len(log)]

StartFanoutUnbuffered(rq, mfetch, glob) ==
    [rq EXCEPT !.pc = "fanout", !.mfetch = mfetch, !.glob = glob, !.gi = 1,
               !.leaves = 0, !.got = 0, !.rch = <<>>, !.rchCap = 0]

\* rch := make(chan *metricData, len(glob.GetMatches())); leaves := 0
StartFanout(rq, mfetch, glob) ==
    [rq EXCEPT !.pc = "fanout", !.mfetch = mfetch, !.glob = glob, !.gi = 1,
               !.leaves = 0, !.got = 0, !.rch = <<>>, !.rchCap = Len(glob.matches)]

\* The head of the loop over the metrics of the target: the de-duplication,
\* the find-cache lookup, and the start of Zipper.Find on a miss.
Metric(r) ==
    /\ req[r].pc = "metric"
    /\ LET rq == req[r]
       IN IF rq.mi > Len(rq.mets)
          THEN /\ req' = [req EXCEPT ![r].pc = "eval"]
               /\ UNCHANGED metrics
          ELSE LET m == rq.mets[rq.mi]
                   mfetch == MetricRequest(m.metric, m.from + rq.from32, m.until + rq.until32)
               IN IF AlreadyFetched(rq.metricMap, mfetch)
                  THEN /\ req' = [req EXCEPT ![r].mi = @ + 1]
                       /\ UNCHANGED metrics
                  ELSE \E out \in CacheGet(cacheType, findCache, m.metric, now) :
                         LET hitc == UseFindCache(rq.useCache, out)
                             have == hitc /\ UnmarshalOk(out.val)
                             m1 == Bump(metrics, "memcacheTimeouts", Timeouts(out))
                             m2 == IF hitc THEN Bump(m1, "findCacheHits", 1) ELSE m1
                         IN IF have
                            THEN /\ metrics' = m2
                                 /\ req' = [req EXCEPT ![r] =
                                      StartFanout([rq EXCEPT !.fetchLog =
                                                      Append(@, FetchRec(rq.ti, mfetch, TRUE, "none"))],
                                                  mfetch, Unmarshal(out.val))]
                            ELSE /\ metrics' = Bump(m2, "findRequests", 1)
                                 /\ req' = [req EXCEPT ![r] =
                                      [rq EXCEPT !.pc = "finding", !.mfetch = mfetch,
                                                 !.zipperRequests = @ + 1,
                                                 !.findLog = Append(@, m.metric),
                                                 !.fetchLog =
                                                     Append(@, FetchRec(rq.ti, mfetch, FALSE, "fail"))]]
    /\ UNCHANGED <<kc, mc, fh, md, mode, cacheType, now, queryCache, findCache, limiter, tasks, arrivals,
                   lookups, served>>

\* Zipper.Find returns: an error skips the metric, a response is stored in
\* the find cache.
FindReturn(r) ==
    /\ req[r].pc = "finding"
    /\ LET rq == req[r]
       IN \E ok \in BOOLEAN :
            IF ~ok
            THEN /\ req' = [req EXCEPT ![r] =
                              [rq EXCEPT !.pc = "metric", !.mi = @ + 1]]
                 /\ UNCHANGED findCache
            ELSE LET glob == GlobResponse(rq.mfetch.metric)
                 IN \E fc \in CacheSet(cacheType, findCache, rq.mfetch.metric,
                                       Marshal(glob), FindCacheTTL, now) :
                      /\ findCache' = fc
                      /\ req' = [req EXCEPT ![r] =
                           StartFanout([rq EXCEPT
                               !.findSets = Append(@, [key |-> rq.mfetch.metric,
                                                       val |-> Marshal(glob),
                                                       ttl |-> FindCacheTTL]),
                               !.fetchLog = UpdLast(@, "find", "ok")],
                               rq.mfetch, glob)]
    /\ UNCHANGED <<kc, mc, fh, md, mode, cacheType, now, queryCache, limiter, tasks, metrics, arrivals,
                   lookups, served>>

\* The loop over the matches: a non-leaf is skipped, a leaf is counted and
\* the coordinator goes on to Limiter.enter(); after the last match it
\* starts to receive.
Fanout(r) ==
    /\ req[r].pc = "fanout"
    /\ LET rq == req[r]
       IN IF rq.gi > Len(rq.glob.matches)
          THEN /\ req' = [req EXCEPT ![r] =
                            IF rq.leaves = 0
                            THEN [rq EXCEPT !.pc = "metric", !.mi = @ + 1]
                            ELSE [rq EXCEPT !.pc = "collect"]]
               /\ UNCHANGED metrics
          ELSE IF ~rq.glob.matches[rq.gi].isLeaf
               THEN /\ req' = [req EXCEPT ![r].gi = @ + 1]
                    /\ UNCHANGED metrics
               ELSE /\ req' = [req EXCEPT ![r] = [rq EXCEPT !.pc = "enter", !.leaves = @ + 1]]
                    /\ metrics' = Bump(metrics, "renderRequests", 1)
    /\ UNCHANGED <<kc, mc, fh, md, mode, cacheType, now, queryCache, findCache, limiter, tasks, arrivals,
                   lookups, served>>

(***************************************************************************)
(* Limiter: a counting semaphore of LimiterCap permits.                    *)
(***************************************************************************)
\* The capacity the limiter was built with: the smallest one that makes a
\* coordinator wait, or one more, with which two Render calls overlap.
Capacity == IF mode = "par" THEN LimiterCap + 1 ELSE LimiterCap
LimiterCanEnter(l) == l < Capacity
LimiterEnter(l) == l + 1
LimiterLeave(l) == l - 1

Series(path, from, until) == [ok |-> TRUE, name |-> path, from |-> from, until |-> until]
Nil == [ok |-> FALSE, name |-> "", from |-> 0, until |-> 0]

RenderTask(r, rq) ==
    [req |-> r, path |-> rq.glob.matches[rq.gi].path, from |-> rq.mfetch.from,
     until |-> rq.mfetch.until, pc |-> "render"]

\* The coordinator after go func(...): the next match.
Launched(rq) ==
    LET path == rq.glob.matches[rq.gi].path
    IN [rq EXCEPT !.pc = "fanout", !.gi = @ + 1, !.zipperRequests = @ + 1,
                  !.renderLog = Append(@, <<path, rq.mfetch.from, rq.mfetch.until>>),
                  !.fetchLog = UpdLast(@, "renders", Append(Last(@).renders, path))]

LaunchUnlimited(r) ==
    /\ req[r].pc = "enter"
    /\ limiter' = LimiterEnter(limiter)
    /\ tasks' = Append(tasks, RenderTask(r, req[r]))
    /\ req' = [req EXCEPT ![r] = Launched(req[r])]
    /\ UNCHANGED <<kc, mc, fh, md, mode, cacheType, now, queryCache, findCache, metrics, arrivals, lookups, served>>

\* Limiter.enter(), then the goroutine that renders the leaf is started.
Launch(r) ==
    /\ req[r].pc = "enter"
    /\ LimiterCanEnter(limiter)
    /\ limiter' = LimiterEnter(limiter)
    /\ tasks' = Append(tasks, RenderTask(r, req[r]))
    /\ req' = [req EXCEPT ![r] = Launched(req[r])]
    /\ UNCHANGED <<kc, mc, fh, md, mode, cacheType, now, queryCache, findCache, metrics, arrivals, lookups, served>>

RemoveAt(s, i) == [j \in 1..(Len(s) - 1) |-> IF j < i THEN s[j] ELSE s[j + 1]]

RenderReturnWritesMap(i) ==
    /\ i \in 1..Len(tasks)
    /\ tasks[i].pc = "render"
    /\ LET t == tasks[i]
           r == t.req
       IN /\ Len(req[r].rch) < req[r].rchCap
          /\ \E ok \in BOOLEAN :
               LET v == IF ok THEN Series(t.path, t.from, t.until) ELSE Nil
                   f == IF ok THEN "okPaths" ELSE "failPaths"
               IN req' = [req EXCEPT ![r] =
                            [@ EXCEPT !.rch = Append(@, Nil),
                                      !.metricMap =
                                          IF ok
                                          THEN [x \in DOMAIN @ \cup {req[r].mfetch} |->
                                                  IF x = req[r].mfetch
                                                  THEN Append(MapGet(@, x), v)
                                                  ELSE @[x]]
                                          ELSE @,
                                      !.fetchLog = UpdLast(@, f, Append(Last(@)[f], t.path))]]
    /\ tasks' = [tasks EXCEPT ![i].pc = "sent"]
    /\ UNCHANGED <<kc, mc, fh, md, mode, cacheType, now, queryCache, findCache, limiter, metrics, arrivals,
                   lookups, served>>

\* Zipper.Render returns in the goroutine, which sends the series, or nil
\* after an error, on the channel of the fetch.
RenderReturn(i) ==
    /\ i \in 1..Len(tasks)
    /\ tasks[i].pc = "render"
    /\ LET t == tasks[i]
           r == t.req
       IN /\ Len(req[r].rch) < req[r].rchCap
          /\ \E ok \in BOOLEAN :
               LET v == IF ok THEN Series(t.path, t.from, t.until) ELSE Nil
                   f == IF ok THEN "okPaths" ELSE "failPaths"
               IN req' = [req EXCEPT ![r] =
                            [@ EXCEPT !.rch = Append(@, v),
                                      !.fetchLog = UpdLast(@, f, Append(Last(@)[f], t.path))]]
    /\ tasks' = [tasks EXCEPT ![i].pc = "sent"]
    /\ UNCHANGED <<kc, mc, fh, md, mode, cacheType, now, queryCache, findCache, limiter, metrics, arrivals,
                   lookups, served>>

LeaveKeepsPermit(i) ==
    /\ i \in 1..Len(tasks)
    /\ tasks[i].pc = "sent"
    /\ tasks' = RemoveAt(tasks, i)
    /\ UNCHANGED <<kc, mc, fh, md, mode, cacheType, now, queryCache, findCache, limiter, metrics, req,
                   arrivals, lookups, served>>

\* Limiter.leave(), the goroutine's last statement.
Leave(i) ==
    /\ i \in 1..Len(tasks)
    /\ tasks[i].pc = "sent"
    /\ limiter' = LimiterLeave(limiter)
    /\ tasks' = RemoveAt(tasks, i)
    /\ UNCHANGED <<kc, mc, fh, md, mode, cacheType, now, queryCache, findCache, metrics, req, arrivals,
                   lookups, served>>

CollectedAssigns(mm, mfetch, v) ==
    IF v.ok
    THEN [x \in DOMAIN mm \cup {mfetch} |-> IF x = mfetch THEN <<v>> ELSE mm[x]]
    ELSE mm

\* if r != nil { metricMap[mfetch] = append(metricMap[mfetch], r) }
Collected(mm, mfetch, v) ==
    IF v.ok
    THEN [x \in DOMAIN mm \cup {mfetch} |->
            IF x = mfetch THEN Append(MapGet(mm, mfetch), v) ELSE mm[x]]
    ELSE mm

\* r := <-rch, `leaves` times.
Collect(r) ==
    /\ req[r].pc = "collect"
    /\ req[r].rch # <<>>
    /\ LET rq == req[r]
           v == Head(rq.rch)
           rq1 == [rq EXCEPT !.rch = Tail(@), !.got = @ + 1,
                             !.metricMap = Collected(@, rq.mfetch, v),
                             !.fetchLog = UpdLast(@, "recvOk",
                                                  Last(@).recvOk + (IF v.ok THEN 1 ELSE 0))]
       IN req' = [req EXCEPT ![r] =
                    IF rq1.got = rq1.leaves
                    THEN [rq1 EXCEPT !.pc = "metric", !.mi = @ + 1]
                    ELSE rq1]
    /\ UNCHANGED <<kc, mc, fh, md, mode, cacheType, now, queryCache, findCache, limiter, tasks, metrics,
                   arrivals, lookups, served>>

\* The target evaluated: the parameter, wrapped in maxDataPoints(target, m)
\* when maxDataPoints is set.
TargetLabel(t, mdp) == <<t, mdp>>

EvalNoRecover(r) ==
    /\ req[r].pc = "eval"
    /\ LET rq == req[r]
           t == rq.targets[rq.ti]
       IN IF EvalPanics(t)
          THEN /\ req' = [req EXCEPT ![r] =
                            Ended([rq EXCEPT !.evalLog = Append(@, "panic")],
                                  [NoResponse EXCEPT !.status = 500])]
               /\ served' = served \cup {ServedRec(rq, lookups, 500, FALSE, FALSE, <<>>)}
          ELSE /\ req' = [req EXCEPT ![r] =
                            [rq EXCEPT !.pc = "target", !.ti = @ + 1,
                                       !.evalLog = Append(@, "ok"),
                                       !.results = @ \o EvalExpr(TargetLabel(t, rq.maxDataPoints),
                                                        t, rq.from32, rq.until32, rq.metricMap)]]
               /\ UNCHANGED served
    /\ UNCHANGED <<kc, mc, fh, md, mode, cacheType, now, queryCache, findCache, limiter, tasks, metrics,
                   arrivals, lookups>>

EvalPrepends(r) ==
    /\ req[r].pc = "eval"
    /\ LET rq == req[r]
           t == rq.targets[rq.ti]
       IN req' = [req EXCEPT ![r] =
            IF EvalPanics(t)
            THEN [rq EXCEPT !.pc = "target", !.ti = @ + 1,
                            !.evalLog = Append(@, "panic")]
            ELSE [rq EXCEPT !.pc = "target", !.ti = @ + 1,
                            !.evalLog = Append(@, "ok"),
                            !.results = EvalExpr(TargetLabel(t, rq.maxDataPoints),
                                                 t, rq.from32, rq.until32, rq.metricMap) \o @]]
    /\ UNCHANGED <<kc, mc, fh, md, mode, cacheType, now, queryCache, findCache, limiter, tasks, metrics,
                   arrivals, lookups, served>>

\* The evaluation of the target under recover(): a panic leaves the results
\* as they are.
Eval(r) ==
    /\ req[r].pc = "eval"
    /\ LET rq == req[r]
           t == rq.targets[rq.ti]
       IN req' = [req EXCEPT ![r] =
            IF EvalPanics(t)
            THEN [rq EXCEPT !.pc = "target", !.ti = @ + 1,
                            !.evalLog = Append(@, "panic")]
            ELSE [rq EXCEPT !.pc = "target", !.ti = @ + 1,
                            !.evalLog = Append(@, "ok"),
                            !.results = @ \o EvalExpr(TargetLabel(t, rq.maxDataPoints),
                                                      t, rq.from32, rq.until32, rq.metricMap)]]
    /\ UNCHANGED <<kc, mc, fh, md, mode, cacheType, now, queryCache, findCache, limiter, tasks, metrics,
                   arrivals, lookups, served>>

ShouldStoreAlways(results) == TRUE

\* if len(results) != 0
ShouldStore(results) == Len(results) # 0

\* The body is encoded and written, and stored in the query cache.
Finish(r) ==
    /\ req[r].pc = "encode"
    /\ LET rq == req[r]
           body == MarshalBody(rq.format, rq.results)
           resp == WriteResponse(body, rq.format, rq.jsonp)
       IN IF ShouldStore(rq.results)
          THEN \E qc \in CacheSet(cacheType, queryCache, rq.cacheKey, body,
                                  rq.cacheTimeout, now) :
                 /\ queryCache' = qc
                 /\ req' = [req EXCEPT ![r] =
                      Ended([rq EXCEPT !.setLog = Append(@, [key |-> rq.cacheKey,
                                 body |-> body, ttl |-> rq.cacheTimeout])], resp)]
                 /\ served' = served \cup {ServedRec(rq, lookups, 200, FALSE,
                                                 Holds(cacheType, qc, rq.cacheKey, body), body)}
          ELSE /\ req' = [req EXCEPT ![r] = Ended(rq, resp)]
               /\ served' = served \cup {ServedRec(rq, lookups, 200, FALSE, FALSE, <<>>)}
               /\ UNCHANGED queryCache
    /\ UNCHANGED <<kc, mc, fh, md, mode, cacheType, now, findCache, limiter, tasks, metrics, arrivals, lookups>>

\* Time passes.
Tick ==
    /\ arrivals > 0
    /\ \A r \in Reqs : ~Running(req[r])
    /\ now < MaxTicks * TickStep
    /\ now' = now + TickStep
    /\ UNCHANGED <<kc, mc, fh, md, mode, cacheType, queryCache, findCache, limiter, tasks, metrics, req,
                   arrivals, lookups, served>>

AllQueries ==
    Queries \cup SeqQueries \cup ConcQueries \cup ErrQueries \cup FailQueries \cup PairQueries

Next ==
    \/ \E r \in Reqs, q \in AllQueries : Arrive(r, q)
    \/ \E r \in Reqs : Lookup(r)
    \/ \E r \in Reqs : Target(r)
    \/ \E r \in Reqs : Metric(r)
    \/ \E r \in Reqs : FindReturn(r)
    \/ \E r \in Reqs : Fanout(r)
    \/ \E r \in Reqs : Launch(r)
    \/ \E i \in 1..Len(tasks) : RenderReturn(i)
    \/ \E i \in 1..Len(tasks) : Leave(i)
    \/ \E r \in Reqs : Collect(r)
    \/ \E r \in Reqs : Eval(r)
    \/ \E r \in Reqs : Finish(r)

NextSeq == Next \/ Tick

\* One request, any of Queries, under each cache variant.
Spec == Init /\ [][Next]_vars
\* Requests one after the other, with time passing between them.
SpecSeq == InitWith("seq", CacheTypes) /\ [][NextSeq]_vars
\* Requests at the same time, sharing the limiter.
SpecConc == InitWith("conc", {"mem"}) /\ [][Next]_vars
\* Two requests, one after the other, that differ in jsonp or in noCache.
SpecPair == InitWith("pair", CacheTypes) /\ [][Next]_vars
\* One request whose Render calls overlap: the limiter has two permits.
SpecPar == InitWith("par", {"mem"}) /\ [][Next]_vars

\* What the goroutine that serves request r does once the request is in:
\* every statement of renderHandler, the return of Zipper.Find included.
CoordProgress(r) ==
    \/ Lookup(r) \/ Target(r) \/ Metric(r) \/ FindReturn(r) \/ Fanout(r)
    \/ Launch(r) \/ Collect(r) \/ Eval(r) \/ Finish(r)
\* A step of a Render goroutine: Zipper.Render returns and the result is
\* sent, or the permit is given back.
TaskStep == \E i \in 1..Len(tasks) : RenderReturn(i) \/ Leave(i)
\* Requests at the same time, where every goroutine that can run does run in
\* the end and every zipper call returns in the end.
SpecLive ==
    /\ InitWith("conc", {"mem"})
    /\ [][Next]_vars
    /\ \A r \in Reqs : WF_vars(CoordProgress(r))
    /\ WF_vars(TaskStep)

\* Requests with something wrong in them, one after the other.
SpecErr == InitWith("err", {"null", "mem"}) /\ [][NextSeq]_vars

\* Bytes that are not the encoding of a GlobResponse.
Undecodable == <<"junk", "x", <<>>>>

\* A memcached find cache that holds undecodable bytes under the key of the
\* metric x; the in-memory cache starts empty.
InitFail ==
    /\ mode = "fail"
    /\ cacheType \in {"mem", "memcache"}
    /\ findCache = IF cacheType = "memcache"
                   THEN Store(<<>>, McKey("x"), CacheEntry(Undecodable, FindCacheTTL, 0))
                   ELSE <<>>
    /\ now = 0 /\ queryCache = <<>> /\ limiter = 0 /\ tasks = <<>>
    /\ metrics = [requests |-> 0, requestCacheHits |-> 0, findRequests |-> 0,
                  findCacheHits |-> 0, renderRequests |-> 0, memcacheTimeouts |-> 0]
    /\ req = [r \in Reqs |-> IdleReq]
    /\ arrivals = 0 /\ lookups = 0 /\ served = {}
    /\ kc = KeyIdle
    /\ mc = McIdle
    /\ fh = FindIdle
    /\ md = MdIdle

\* Requests one after the other over caches that fail.
SpecFail == InitFail /\ [][Next]_vars

(***************************************************************************)
(* The query-cache key as a function of the query string: two requests     *)
(* whose query strings a and b differ by a few edits, and the keys         *)
(* renderHandler computes for them.                                        *)
(***************************************************************************)
\* The parameters renderHandler deletes from the form before it encodes it.
IgnoredNames == {"noCache", "jsonp", "_salt", "_ts", "_t"}

KeyParams ==
    { P("target", "x"), P("target", "a.b"), P("format", "json"), P("format", "raw"),
      P("from", "10"), P("until", "200"), P("cacheTimeout", "10"),
      P("maxDataPoints", "100"), P("noCache", "1"), P("jsonp", "cb"),
      P("_salt", "s"), P("_ts", "100"), P("_ts", "200"), P("_t", "0") }

\* The parameters of the first request.
BaseParams ==
    { P("target", "x"), P("target", "a.b"), P("format", "json"), P("from", "10"),
      P("noCache", "1"), P("_ts", "100") }

KeyQueries == UNION {[1..n -> BaseParams] : n \in 1..MaxParams}

InitKey ==
    /\ mode = "key"
    /\ cacheType = "mem"
    /\ now = 0 /\ queryCache = <<>> /\ findCache = <<>> /\ limiter = 0 /\ tasks = <<>>
    /\ metrics = [requests |-> 0, requestCacheHits |-> 0, findRequests |-> 0,
                  findCacheHits |-> 0, renderRequests |-> 0, memcacheTimeouts |-> 0]
    /\ req = [r \in Reqs |-> IdleReq]
    /\ arrivals = 0 /\ lookups = 0 /\ served = {}
    /\ kc \in {[KeyIdle EXCEPT !.pc = "edit", !.a = q, !.b = q] : q \in KeyQueries}
    /\ mc = McIdle
    /\ fh = FindIdle
    /\ md = MdIdle

EditKind(name) == IF name \in IgnoredNames THEN "ignored" ELSE "other"

Edited(b, kind) == [kc EXCEPT !.b = b, !.edits = @ \cup {kind}, !.n = @ + 1]

\* The second request has two neighbouring parameters the other way round.
KeySwap(i) ==
    /\ kc.pc = "edit" /\ kc.n < MaxEdits
    /\ i \in 1..(Len(kc.b) - 1)
    /\ kc.b[i] # kc.b[i + 1]
    /\ kc' = Edited([kc.b EXCEPT ![i] = kc.b[i + 1], ![i + 1] = kc.b[i]],
                    IF kc.b[i][1] = kc.b[i + 1][1] THEN "orderSame" ELSE "order")
    /\ UNCHANGED <<renderVars, mc, fh, md>>

\* The second request has another value for one parameter.
KeyReplace(i, p) ==
    /\ kc.pc = "edit" /\ kc.n < MaxEdits
    /\ i \in 1..Len(kc.b)
    /\ p[1] = kc.b[i][1] /\ p # kc.b[i]
    /\ kc' = Edited([kc.b EXCEPT ![i] = p], EditKind(p[1]))
    /\ UNCHANGED <<renderVars, mc, fh, md>>

\* The second request has one parameter more.
KeyAdd(p) ==
    /\ kc.pc = "edit" /\ kc.n < MaxEdits
    /\ Len(kc.b) <= MaxParams
    /\ kc' = Edited(Append(kc.b, p), EditKind(p[1]))
    /\ UNCHANGED <<renderVars, mc, fh, md>>

\* The second request has one parameter less.
KeyRemove(i) ==
    /\ kc.pc = "edit" /\ kc.n < MaxEdits
    /\ i \in 1..Len(kc.b)
    /\ kc' = Edited(RemoveAt(kc.b, i), EditKind(kc.b[i][1]))
    /\ UNCHANGED <<renderVars, mc, fh, md>>

\* renderHandler computes the key of each of the two requests.
KeyCompute ==
    /\ kc.pc = "edit"
    /\ kc' = [kc EXCEPT !.pc = "done", !.keyA = CacheKey(kc.a), !.keyB = CacheKey(kc.b)]
    /\ UNCHANGED <<renderVars, mc, fh, md>>

NextKey ==
    \/ \E i \in 1..MaxParams : KeySwap(i)
    \/ \E i \in 1..(MaxParams + 1), p \in KeyParams : KeyReplace(i, p)
    \/ \E p \in KeyParams : KeyAdd(p)
    \/ \E i \in 1..(MaxParams + 1) : KeyRemove(i)
    \/ KeyCompute

\* Pairs of query strings a few edits apart, and their keys.
SpecKey == InitKey /\ [][NextKey]_vars

(***************************************************************************)
(* memcachedCache.get: the caller, the goroutine that runs client.Get, the *)
(* channel done (capacity 1) and the timer of time.After, for calls made   *)
(* one after the other. A goroutine parked in a select is completed by the *)
(* first channel operation that reaches it; a select that finds several    *)
(* cases ready takes any of them.                                          *)
(***************************************************************************)
McServerValues == {"", "v1", "v2"}

InitMc ==
    /\ mode = "mc"
    /\ cacheType = "memcache"
    /\ now = 0 /\ queryCache = <<>> /\ findCache = <<>> /\ limiter = 0 /\ tasks = <<>>
    /\ metrics = [requests |-> 0, requestCacheHits |-> 0, findRequests |-> 0,
                  findCacheHits |-> 0, renderRequests |-> 0, memcacheTimeouts |-> 0]
    /\ req = [r \in Reqs |-> IdleReq]
    /\ arrivals = 0 /\ lookups = 0 /\ served = {}
    /\ kc = KeyIdle
    /\ mc \in {[McIdle EXCEPT !.pc = "idle", !.server = v] : v \in {"", "v1"}}
    /\ fh = FindIdle
    /\ md = MdIdle

\* get is called: hk, done := make(chan bool, 1), var err, var item.
McCall ==
    /\ mc.pc = "idle" /\ mc.call < MaxMcCalls
    /\ mc' = [mc EXCEPT !.pc = "go", !.call = @ + 1]
    /\ UNCHANGED <<renderVars, kc, fh, md>>

\* go func() { ... }()
McGo ==
    /\ mc.pc = "go"
    /\ mc' = [mc EXCEPT !.pc = "after", !.bg[mc.call] = "running"]
    /\ UNCHANGED <<renderVars, kc, fh, md>>

\* timeout := time.After(50 * time.Millisecond)
McAfter ==
    /\ mc.pc = "after"
    /\ mc' = [mc EXCEPT !.pc = "select", !.timer[mc.call] = "armed"]
    /\ UNCHANGED <<renderVars, kc, fh, md>>

SelectCasesNoDeadline(timerReady, doneReady) == IF doneReady THEN {"done"} ELSE {}

\* The cases of get's select that can proceed.
SelectCases(timerReady, doneReady) ==
    (IF timerReady THEN {"timeout"} ELSE {}) \cup (IF doneReady THEN {"done"} ELSE {})

\* get's select has taken a case.
Selected(m, c, case, ready) ==
    IF case = "timeout"
    THEN [m EXCEPT !.pc = "timeout", !.timer[c] = "taken", !.sel[c] = ready]
    ELSE [m EXCEPT !.pc = "errcheck", !.done[c] = 0, !.sel[c] = ready]

\* get reaches its select: it takes a ready case, or parks.
McSelect ==
    /\ mc.pc = "select"
    /\ LET c == mc.call
           ready == SelectCases(mc.timer[c] = "fired", mc.done[c] = 1)
       IN IF ready = {}
          THEN mc' = [mc EXCEPT !.pc = "parked"]
          ELSE \E case \in ready : mc' = Selected(mc, c, case, ready)
    /\ UNCHANGED <<renderVars, kc, fh, md>>

\* The 50 ms of a timer are over: its channel receives the time.
McTimerFire(c) ==
    /\ mc.timer[c] = "armed"
    /\ LET m == [mc EXCEPT !.late[c] = (mc.bg[c] = "running")]
       IN IF mc.call = c /\ mc.pc = "parked" /\ "timeout" \in SelectCases(TRUE, FALSE)
          THEN mc' = Selected(m, c, "timeout", {"timeout"})
          ELSE mc' = [m EXCEPT !.timer[c] = "fired"]
    /\ UNCHANGED <<renderVars, kc, fh, md>>

\* item, err = m.client.Get(hk) returns in the goroutine.
McBgGet(c) ==
    /\ mc.bg[c] = "running"
    /\ \E fails \in BOOLEAN :
         /\ mc.server = "" => fails
         /\ mc' = [mc EXCEPT !.bg[c] = "got",
                             !.item[c] = IF fails THEN "" ELSE mc.server,
                             !.err[c] = fails]
    /\ UNCHANGED <<renderVars, kc, fh, md>>

McBgSendUnbuffered(c) ==
    /\ mc.bg[c] = "got"
    /\ mc.call = c /\ mc.pc = "parked" /\ "done" \in SelectCases(FALSE, TRUE)
    /\ mc' = Selected([mc EXCEPT !.bg[c] = "exit"], c, "done", {"done"})
    /\ UNCHANGED <<renderVars, kc, fh, md>>

\* done <- true in the goroutine, which then ends.
McBgSend(c) ==
    /\ mc.bg[c] = "got"
    /\ mc.done[c] < 1
    /\ LET m == [mc EXCEPT !.bg[c] = "exit"]
       IN IF mc.call = c /\ mc.pc = "parked" /\ "done" \in SelectCases(FALSE, TRUE)
          THEN mc' = Selected(m, c, "done", {"done"})
          ELSE mc' = [m EXCEPT !.done[c] = 1]
    /\ UNCHANGED <<renderVars, kc, fh, md>>

\* What get returned, with what was the case when it returned.
McRet(val, ok, timedOut) ==
    LET c == mc.call
    IN [call |-> c, val |-> val, ok |-> ok, timedOut |-> timedOut,
        fired |-> mc.timer[c] \in {"fired", "taken"}, late |-> mc.late[c],
        ready |-> mc.sel[c], bg |-> mc.bg[c]]

\* case <-timeout: Metrics.MemcacheTimeouts.Add(1); return nil, false
McTimeout ==
    /\ mc.pc = "timeout"
    /\ metrics' = Bump(metrics, "memcacheTimeouts", 1)
    /\ mc' = [mc EXCEPT !.pc = "idle", !.rets = Append(@, McRet("", FALSE, TRUE))]
    /\ UNCHANGED <<mode, cacheType, now, queryCache, findCache, limiter, tasks, req,
                   arrivals, lookups, served, kc, fh, md>>

\* case <-done: if err != nil { return nil, false }; return item.Value, true
McErrCheck ==
    /\ mc.pc = "errcheck"
    /\ LET c == mc.call
       IN mc' = [mc EXCEPT !.pc = "idle",
                           !.rets = Append(@, IF mc.err[c] THEN McRet("", FALSE, FALSE)
                                              ELSE McRet(mc.item[c], TRUE, FALSE))]
    /\ UNCHANGED <<renderVars, kc, fh, md>>

\* Another client of the memcached server sets or deletes the key.
McServerSet(v) ==
    /\ mc.pc # "off" /\ mc.call > 0
    /\ v # mc.server
    /\ mc' = [mc EXCEPT !.server = v]
    /\ UNCHANGED <<renderVars, kc, fh, md>>

NextMc ==
    \/ McCall
    \/ McGo
    \/ McAfter
    \/ McSelect
    \/ \E c \in Calls : McTimerFire(c)
    \/ \E c \in Calls : McBgGet(c)
    \/ \E c \in Calls : McBgSend(c)
    \/ McTimeout
    \/ McErrCheck
    \/ \E v \in McServerValues : McServerSet(v)

\* Calls of memcachedCache.get, one after the other.
SpecMc == InitMc /\ [][NextMc]_vars
\* The same, where a goroutine that can send on done does so in the end.
SpecMcLive == InitMc /\ [][NextMc]_vars /\ \A c \in Calls : WF_vars(McBgSend(c))

(***************************************************************************)
(* corsHandler and findHandler.  A string that the handlers cut at its     *)
(* last dot is the sequence of its components and dots, so that slicing    *)
(* and concatenation are computed on it.                                   *)
(***************************************************************************)
\* The characters of the metric names and globs of the model.
Chars(p) ==
    CASE p = "a.b"   -> <<"a", ".", "b">>
      [] p = "a.c"   -> <<"a", ".", "c">>
      [] p = "a.d"   -> <<"a", ".", "d">>
      [] p = "a.*"   -> <<"a", ".", "*">>
      [] p = "a.b.c" -> <<"a", ".", "b", ".", "c">>
      [] p = "a.d.c" -> <<"a", ".", "d", ".", "c">>
      [] p = "a.*.c" -> <<"a", ".", "*", ".", "c">>
      [] OTHER       -> <<p>>

\* strings.LastIndex(s, "."): the position of the last dot, 0 for Go's -1.
LastIndexDot(s) ==
    IF \E i \in 1..Len(s) : s[i] = "."
    THEN CHOOSE i \in 1..Len(s) : s[i] = "." /\ \A j \in (i + 1)..Len(s) : s[j] # "."
    ELSE 0

\* findTreejson: basepath is the glob's name, cut after its last dot
\* (basepath[:i+1]) when it has one.
BasePath(glob) ==
    LET s == Chars(glob.name)
    IN IF LastIndexDot(s) # 0 THEN SubSeq(s, 1, LastIndexDot(s)) ELSE s

\* findTreejson: name is the path, cut before its last dot (name[i+1:])
\* when it has one.
TreeName(path) ==
    LET s == Chars(path)
    IN IF LastIndexDot(s) # 0 THEN SubSeq(s, LastIndexDot(s) + 1, Len(s)) ELSE s

\* findTreejson: the element built for a match.
TreeElement(glob, g) ==
    [id |-> BasePath(glob) \o TreeName(g.path), text |-> TreeName(g.path),
     leaf |-> IF g.isLeaf THEN 1 ELSE 0,
     allowChildren |-> IF g.isLeaf THEN 0 ELSE 1,
     expandable |-> IF g.isLeaf THEN 0 ELSE 1]

\* findTreejson: the loop over the first n matches, skipping a seen name.
RECURSIVE TreeOf(_, _)
TreeOf(glob, n) ==
    IF n = 0 THEN <<>>
    ELSE LET g == glob.matches[n]
             seen == {TreeName(glob.matches[i].path) : i \in 1..(n - 1)}
         IN IF TreeName(g.path) \in seen
            THEN TreeOf(glob, n - 1)
            ELSE Append(TreeOf(glob, n - 1), TreeElement(glob, g))

FindTreejson(glob) == <<"tree", TreeOf(glob, Len(glob.matches))>>

\* findCompleter: the entry built for a match; Name is set (c.Path[i+1:])
\* only when the path has a dot.
CompleterEntry(g) ==
    LET s == Chars(g.path)
    IN [path |-> s, is_leaf |-> IF g.isLeaf THEN "1" ELSE "0",
        name |-> IF LastIndexDot(s) # 0 THEN SubSeq(s, LastIndexDot(s) + 1, Len(s)) ELSE <<>>]

FindCompleter(glob) ==
    <<"metrics", [i \in 1..Len(glob.matches) |-> CompleterEntry(glob.matches[i])]>>

\* findHandler: the switch on format; another format leaves b nil.
FindBody(format, glob) ==
    CASE format \in {"treejson", "json"} -> FindTreejson(glob)
      [] format = "completer"            -> FindCompleter(glob)
      [] OTHER                           -> <<>>

CorsEntersOnOptions(method) == TRUE

\* corsHandler: the wrapped handler is called unless the method is OPTIONS.
CorsEnters(method) == method # "OPTIONS"

\* corsHandler: the two headers, set before the method is looked at.
CorsHeader ==
    { <<"Access-Control-Allow-Origin", "*">>,
      <<"Access-Control-Allow-Methods", "POST, GET, OPTIONS">> }

\* corsHandler(findHandler) up to the call of Zipper.Find.
CorsFind(method, query, format, jsonp) ==
    /\ mode = "find"
    /\ fh.pc = "idle"
    /\ LET rq == [fh EXCEPT !.endpoint = "find", !.method = method, !.query = query,
                            !.format = IF format = "" THEN "treejson" ELSE format,
                            !.jsonp = jsonp, !.header = CorsHeader]
       IN fh' = IF ~CorsEnters(method)
                THEN [rq EXCEPT !.pc = "done", !.resp.status = 200]
                ELSE IF query = ""
                THEN [rq EXCEPT !.pc = "done", !.runs = @ + 1,
                                !.resp = BadRequest("missing parameter query")]
                ELSE [rq EXCEPT !.pc = "finding", !.runs = @ + 1,
                                !.finds = Append(@, query)]
    /\ UNCHANGED <<renderVars, kc, mc, md>>

\* Zipper.Find returns to findHandler, which encodes and writes the response.
FindZipperReturn(ok) ==
    /\ fh.pc = "finding"
    /\ fh' = [fh EXCEPT !.pc = "done",
                        !.resp = IF ok
                                 THEN WriteResponse(FindBody(fh.format, GlobResponse(fh.query)),
                                                    "json", fh.jsonp)
                                 ELSE [status |-> 500, ctype |-> "text/plain", jsonp |-> "",
                                       body |-> <<"Internal Server Error">>]]
    /\ UNCHANGED <<renderVars, kc, mc, md>>

\* corsHandler(render): renderHandler is entered unless the method is OPTIONS.
CorsRender(method, r, q) ==
    /\ mode = "find"
    /\ fh.pc = "idle"
    /\ LET rq == [fh EXCEPT !.endpoint = "render", !.method = method, !.header = CorsHeader]
       IN IF ~CorsEnters(method)
          THEN /\ fh' = [rq EXCEPT !.pc = "done", !.resp.status = 200]
               /\ UNCHANGED <<renderVars, kc, mc, md>>
          ELSE /\ fh' = [rq EXCEPT !.pc = "render", !.runs = @ + 1]
               /\ RenderEnter(r, q)

NextFind ==
    \/ \E m \in {"GET", "POST", "OPTIONS"}, q \in {"", "x", "*", "a.*", "a.*.c"},
          f \in {"", "treejson", "json", "completer", "xml"}, j \in {"", "cb"} :
          CorsFind(m, q, f, j)
    \/ \E ok \in BOOLEAN : FindZipperReturn(ok)
    \/ \E m \in {"GET", "POST", "OPTIONS"}, r \in Reqs, q \in CorsQueries :
          CorsRender(m, r, q)
    \/ \E r \in Reqs : Lookup(r)
    \/ \E r \in Reqs : Target(r)
    \/ \E r \in Reqs : Metric(r)
    \/ \E r \in Reqs : FindReturn(r)
    \/ \E r \in Reqs : Fanout(r)
    \/ \E r \in Reqs : Launch(r)
    \/ \E i \in 1..Len(tasks) : RenderReturn(i)
    \/ \E i \in 1..Len(tasks) : Leave(i)
    \/ \E r \in Reqs : Collect(r)
    \/ \E r \in Reqs : Eval(r)
    \/ \E r \in Reqs : Finish(r)

\* One exchange through corsHandler, to /metrics/find or to /render.
SpecFind == InitWith("find", {"mem"}) /\ [][NextFind]_vars

(***************************************************************************)
(* metricData: the values of a series, its valuesPerPoint and the          *)
(* aggregatedValues it keeps.  A float64 is NaN or the quotient of two     *)
(* integers, so that a mean is exact.                                      *)
(***************************************************************************)
NaN == [nan |-> TRUE, num |-> 0, den |-> 1]
Float(x) == [nan |-> FALSE, num |-> x, den |-> 1]
\* sum / float64(n): 0/0 is NaN.
Quotient(sum, n) == IF n = 0 THEN NaN ELSE [nan |-> FALSE, num |-> sum, den |-> n]

\* The slots of a series: a value, a NaN, or a slot marked absent.
Slots ==
    { [v |-> Float(1), absent |-> FALSE], [v |-> Float(3), absent |-> FALSE],
      [v |-> NaN, absent |-> FALSE], [v |-> Float(1), absent |-> TRUE] }

Nil64 == [set |-> FALSE, v |-> <<>>]
Slice64(v) == [set |-> TRUE, v |-> v]

\* if !math.IsNaN(v[i]) && !absent[i] { sum += v[i]; n++ }
Counted(slot) == ~slot.v.nan /\ ~slot.absent

RECURSIVE SumOf(_)
SumOf(slots) ==
    IF slots = <<>> THEN 0
    ELSE (IF Counted(Head(slots)) THEN Head(slots).v.num ELSE 0) + SumOf(Tail(slots))

RECURSIVE NOf(_)
NOf(slots) ==
    IF slots = <<>> THEN 0
    ELSE (IF Counted(Head(slots)) THEN 1 ELSE 0) + NOf(Tail(slots))

\* The loops of AggregatedValues for valuesPerPoint > 1: the full buckets,
\* then the rest.
RECURSIVE Avg(_, _)
Avg(slots, vpp) ==
    IF Len(slots) >= vpp
    THEN <<Quotient(SumOf(SubSeq(slots, 1, vpp)), NOf(SubSeq(slots, 1, vpp)))>>
         \o Avg(SubSeq(slots, vpp + 1, Len(slots)), vpp)
    ELSE IF Len(slots) > 0
    THEN <<Quotient(SumOf(slots), NOf(slots))>>
    ELSE <<>>

\* AggregatedValues past its first test: the copy with NaN for an absent
\* slot when valuesPerPoint is 0 or 1, the means otherwise.
Compute(slots, vpp) ==
    IF vpp = 1 \/ vpp = 0
    THEN [i \in 1..Len(slots) |-> IF slots[i].absent THEN NaN ELSE slots[i].v]
    ELSE Avg(slots, vpp)

\* AggregatedValues(): r.aggregatedValues when it is not nil, else computed.
AggregatedValues(m) ==
    IF m.aggregatedValues.set THEN m.aggregatedValues
    ELSE Slice64(Compute(m.slots, m.valuesPerPoint))

\* math.Ceil(a / b) for an integer a >= 0 and an integer b # 0.
CeilDiv(a, b) == IF b > 0 THEN (a + b - 1) \div b ELSE 0 - (a \div (0 - b))

\* drawGraph: params.timeRange for a graph of one series that starts at
\* startTime.  endTime is the series' stop time, and stop - step unless the
\* line mode is staircase or the series has two points.
TimeRange(len, stepTime, staircase) ==
    IF staircase \/ len = 2 THEN len * stepTime ELSE (len - 1) * stepTime

\* AggregatedTimeStep()
AggregatedTimeStep(m) ==
    IF m.valuesPerPoint = 1 \/ m.valuesPerPoint = 0 THEN m.stepTime
    ELSE m.stepTime * m.valuesPerPoint

\* consolidateDataPoints: the valuesPerPoint it gives a series.  The width
\* is in whole pixels; bestXStep < 1 is numberOfPixels < timeRange / stepTime.
ValuesPerPointFor(numberOfPixels, timeRange, stepTime) ==
    LET numberOfDataPoints == timeRange \div stepTime
    IN IF numberOfPixels * stepTime < timeRange
       THEN CeilDiv(numberOfDataPoints, numberOfPixels)
       ELSE 1

InitAgg ==
    /\ mode = "agg"
    /\ cacheType = "null"
    /\ now = 0 /\ queryCache = <<>> /\ findCache = <<>> /\ limiter = 0 /\ tasks = <<>>
    /\ metrics = [requests |-> 0, requestCacheHits |-> 0, findRequests |-> 0,
                  findCacheHits |-> 0, renderRequests |-> 0, memcacheTimeouts |-> 0]
    /\ req = [r \in Reqs |-> IdleReq]
    /\ arrivals = 0 /\ lookups = 0 /\ served = {}
    /\ kc = KeyIdle
    /\ mc = McIdle
    /\ fh = FindIdle
    /\ md \in {[pc |-> "on", slots |-> ss, stepTime |-> st, valuesPerPoint |-> 0,
                aggregatedValues |-> Nil64, ret |-> Nil64, last |-> "none",
                numberOfPixels |-> 0, timeRange |-> 0, calls |-> 0, ops |-> 0] :
               ss \in UNION {[1..n -> Slots] : n \in 0..MaxValues}, st \in {1, 2}}

\* consolidateDataPoints sets the series' valuesPerPoint.
ConsolidateDataPoints(numberOfPixels, timeRange, stepTime) ==
    /\ md.pc = "on" /\ md.ops < MaxOps
    /\ md' = [md EXCEPT !.valuesPerPoint = ValuesPerPointFor(numberOfPixels, timeRange, stepTime),
                        !.numberOfPixels = numberOfPixels, !.timeRange = timeRange,
                        !.last = "consolidate", !.ops = @ + 1]
    /\ UNCHANGED <<renderVars, kc, mc, fh>>

\* maxDataPoints(series, m): valuesPerPoint such that at most m points are left.
MaxDataPoints(m) ==
    /\ md.pc = "on" /\ md.ops < MaxOps
    /\ md' = [md EXCEPT !.valuesPerPoint = CeilDiv(Len(md.slots), m),
                        !.last = "set", !.ops = @ + 1]
    /\ UNCHANGED <<renderVars, kc, mc, fh>>

\* A call of AggregatedValues(); ret is what it returned, last the kind of
\* the latest operation on the series.  With nothing kept and a negative
\* valuesPerPoint the call panics in v[r.valuesPerPoint:] or in make.
CallAggregatedValues ==
    /\ md.pc = "on" /\ md.ops < MaxOps
    /\ md' = IF ~md.aggregatedValues.set /\ md.valuesPerPoint < 0
             THEN [md EXCEPT !.pc = "panic", !.last = "call", !.calls = @ + 1, !.ops = @ + 1]
             ELSE [md EXCEPT !.aggregatedValues = AggregatedValues(md),
                             !.ret = AggregatedValues(md),
                             !.last = "call", !.calls = @ + 1, !.ops = @ + 1]
    /\ UNCHANGED <<renderVars, kc, mc, fh>>

NextAgg ==
    \/ \E p \in {-2, 1, 2}, staircase \in BOOLEAN :
          /\ md.pc = "on" /\ Len(md.slots) > 0
          /\ ConsolidateDataPoints(p, TimeRange(Len(md.slots), md.stepTime, staircase),
                                   md.stepTime)
    \/ \E m \in {1, 2} : MaxDataPoints(m)
    \/ CallAggregatedValues

\* One series: its valuesPerPoint set and its aggregated values read, in any order.
SpecAgg == InitAgg /\ [][NextAgg]_vars

(***************************************************************************)
(* Properties.                                                             *)
(***************************************************************************)
NoDup(s) == \A i, j \in 1..Len(s) : i # j => s[i] # s[j]
Count(s, x) == Cardinality({i \in 1..Len(s) : s[i] = x})
Done(rq) == rq.pc = "done"
AllParse(ts) == \A k \in 1..Len(ts) : ParseOk(ts[k])
\* The Render goroutines whose Zipper.Render call has not returned.
InFlight == Cardinality({i \in 1..Len(tasks) : tasks[i].pc = "render"})

\* C1: at every moment the number of Zipper.Render calls in flight, over all
\* requests, is at most the limiter capacity; every Render goroutine holds
\* the permit its coordinator took, until after its Render call returned.
C1_RendersWithinLimit ==
    /\ InFlight <= LimiterCap
    /\ Len(tasks) = limiter
    /\ limiter <= LimiterCap

\* C1 witness: the limiter is full of running Render calls while a second
\* coordinator waits in Limiter.enter().
C1_Witness ==
    /\ InFlight = LimiterCap
    /\ \E r, s \in Reqs : r # s /\ req[r].pc = "enter" /\ Running(req[s])
                          /\ \E i \in 1..Len(tasks) : tasks[i].req = s

\* C2 as stated: within one request no triple (leaf path, from, until) is
\* rendered twice.
C2_RenderOncePerLeafWindow == \A r \in Reqs : NoDup(req[r].renderLog)

\* C2 as amended: within one fetch of a metric request each leaf is rendered
\* once, and a metric request (glob, from, until) is fetched again only when
\* every earlier fetch of it ended without a successfully rendered series.
C2_RenderOncePerFetchedRequest ==
    \A r \in Reqs :
        LET log == req[r].fetchLog
        IN /\ \A k \in 1..Len(log) : NoDup(log[k].renders)
           /\ \A i, j \in 1..Len(log) :
                (i < j /\ log[i].fetch = log[j].fetch /\ log[j].renders # <<>>)
                    => log[i].okPaths = <<>>

\* C2 witness: two targets over the same metric and window, fetched and
\* rendered once, two output series.
C2_Witness ==
    \E r \in Reqs :
        /\ Done(req[r]) /\ Len(req[r].targets) = 2
        /\ ExprMetrics(req[r].targets[1]) = ExprMetrics(req[r].targets[2])
        /\ Len(req[r].renderLog) = 1 /\ Len(req[r].fetchLog) = 1
        /\ Len(req[r].results) = 2

\* C3 as stated: within one request Zipper.Find is called at most once per
\* glob.
C3_FindOncePerGlob == \A r \in Reqs : NoDup(req[r].findLog)

\* C3 as amended: each fetch of a metric request calls Zipper.Find at most
\* once, and a second fetch of the same metric request (glob, from, until)
\* happens only when the earlier one ended without a rendered series; the
\* same glob under two windows is two metric requests.
C3_FindOncePerFetchedRequest ==
    \A r \in Reqs :
        LET log == req[r].fetchLog
            found == {k \in 1..Len(log) : log[k].find # "none"}
        IN /\ Len(req[r].findLog) = Cardinality(found)
           /\ \A k \in found : log[k].fetch.metric \in SeqToSet(req[r].findLog)
           /\ \A i, j \in found :
                (i < j /\ log[i].fetch = log[j].fetch) => log[i].okPaths = <<>>

\* C3 witness: one glob needed under two windows, both fetched with success:
\* Zipper.Find was called for it twice.
C3_Witness ==
    \E r \in Reqs :
        /\ Done(req[r]) /\ Len(req[r].fetchLog) = 2
        /\ req[r].fetchLog[1].fetch.metric = req[r].fetchLog[2].fetch.metric
        /\ req[r].fetchLog[1].fetch # req[r].fetchLog[2].fetch
        /\ req[r].fetchLog[1].okPaths # <<>>
        /\ Count(req[r].findLog, req[r].fetchLog[1].fetch.metric) = 2

\* The TTL a request asks for: its cacheTimeout parameter when it is an
\* integer, 60 otherwise.
ExpectedTTL(q) ==
    LET v == FormValue(ParseForm(q), "cacheTimeout")
    IN CASE v = "10" -> 10 [] v = "100" -> 100 [] v = "200" -> 200 [] OTHER -> 60

\* C6: renderHandler calls queryCache.set exactly when the request was
\* computed to its end with a non-empty result list, and then once, with the
\* canonical key, the body written to the client and TTL = cacheTimeout (60
\* by default); a request that ends with 400 or without series stores nothing.
C6_SetIffResults ==
    \A r \in Reqs :
        LET rq == req[r]
        IN /\ ~Done(rq) => rq.setLog = <<>>
           /\ Done(rq) =>
                /\ Len(rq.setLog) <= 1
                /\ (Len(rq.setLog) = 1) <=>
                       (rq.resp.status = 200 /\ ~rq.hit /\ rq.results # <<>>)
                /\ Len(rq.setLog) = 1 =>
                       rq.setLog[1] = [key |-> CacheKey(rq.query), body |-> rq.resp.body,
                                       ttl |-> ExpectedTTL(rq.query)]
                /\ (cacheType = "mem" /\ mode = "one") =>
                       IF rq.setLog = <<>>
                       THEN queryCache = <<>>
                       ELSE /\ DOMAIN queryCache = {CacheKey(rq.query)}
                            /\ queryCache[CacheKey(rq.query)].val = rq.resp.body
                            /\ queryCache[CacheKey(rq.query)].ttl = ExpectedTTL(rq.query)

\* C6 witness: a request whose cacheTimeout is not an integer ended with a
\* non-empty result and stored it once, with TTL 60, in the in-memory cache.
C6_Witness ==
    \E r \in Reqs :
        /\ Done(req[r]) /\ req[r].resp.status = 200
        /\ FormValue(ParseForm(req[r].query), "cacheTimeout") = "abc"
        /\ Len(req[r].setLog) = 1 /\ req[r].setLog[1].ttl = DefaultCacheTimeout
        /\ cacheType = "mem" /\ queryCache # <<>>

\* The series of a leaf of a fetch.
SeriesOf(rec, p) == Series(p, rec.fetch.from, rec.fetch.until)
\* The handler is between two fetches.
Between(rq) == rq.pc \in {"metric", "eval", "target", "encode"}

\* C9: a failed upstream call never fails the request.  After a fetch, a
\* metric whose Find failed has no series; of the leaves of a glob those
\* whose Render succeeded are all in metricMap and those whose Render failed
\* are not; every target is still evaluated and the response is a 200.
C9_UpstreamFailureTolerated ==
    \A r \in Reqs :
        LET rq == req[r]
            log == rq.fetchLog
            okAnywhere(mf, p) == \E k \in 1..Len(log) :
                                    log[k].fetch = mf /\ p \in SeqToSet(log[k].okPaths)
        IN /\ Between(rq) =>
                \A k \in 1..Len(log) :
                    /\ log[k].find = "fail" => log[k].renders = <<>>
                    /\ (log[k].find = "fail" /\ ~\E j \in 1..Len(log) :
                                                   log[j].fetch = log[k].fetch /\ log[j].okPaths # <<>>)
                           => log[k].fetch \notin DOMAIN rq.metricMap
                    /\ \A p \in SeqToSet(log[k].okPaths) :
                          SeriesOf(log[k], p) \in SeqToSet(MapGet(rq.metricMap, log[k].fetch))
                    /\ \A p \in SeqToSet(log[k].failPaths) :
                          ~okAnywhere(log[k].fetch, p) =>
                              SeriesOf(log[k], p) \notin SeqToSet(MapGet(rq.metricMap, log[k].fetch))
           /\ (Done(rq) /\ ~rq.hit /\ AllParse(rq.targets)
                        /\ rq.resp # BadRequest("Invalid empty time range")) =>
                /\ rq.resp.status = 200
                /\ Len(rq.evalLog) = Len(rq.targets)

\* C9 witness: a request in which one leaf of a glob failed to render while
\* another succeeded and is in metricMap, and the Find of a later metric had
\* failed, goes on to encode its response.
C9_Witness ==
    \E r \in Reqs :
        LET rq == req[r]
        IN /\ rq.pc = "encode" /\ Len(rq.fetchLog) = 2
           /\ rq.fetchLog[1].failPaths # <<>> /\ rq.fetchLog[1].okPaths # <<>>
           /\ rq.fetchLog[2].find = "fail"
           /\ rq.fetchLog[1].fetch \in DOMAIN rq.metricMap
           /\ rq.results # <<>>

\* C10: a panic while a target is evaluated is recovered there: the target
\* adds no series, the series of the earlier targets stay, the later targets
\* are fetched and evaluated, and the request is answered with a 200.
C10_PanicRecoveredPerTarget ==
    \A r \in Reqs :
        LET rq == req[r]
            log == rq.fetchLog
        IN /\ \A i \in 1..Len(rq.results) : ~EvalPanics(rq.results[i].target[1])
           /\ \A k \in 1..Len(rq.evalLog) :
                (rq.evalLog[k] = "panic") <=> EvalPanics(rq.targets[k])
           /\ \A k \in 1..Len(rq.evalLog) :
                ~EvalPanics(rq.targets[k]) =>
                    \A j \in 1..Len(log) : \A p \in SeqToSet(log[j].okPaths) :
                        (/\ log[j].ti <= k
                         /\ \E m \in SeqToSet(ExprMetrics(rq.targets[k])) :
                               log[j].fetch = MetricRequest(m.metric, m.from + rq.from32,
                                                            m.until + rq.until32))
                        => [target |-> TargetLabel(rq.targets[k], rq.maxDataPoints),
                            series |-> SeriesOf(log[j], p)] \in SeqToSet(rq.results)
           /\ (Done(rq) /\ ~rq.hit /\ AllParse(rq.targets)
                        /\ rq.resp # BadRequest("Invalid empty time range")) =>
                /\ rq.resp.status = 200
                /\ Len(rq.evalLog) = Len(rq.targets)
                /\ rq.resp.body = MarshalBody(rq.format, rq.results)

\* C10 witness: the second of three targets panicked; the response holds
\* the series of the first and of the third.
C10_Witness ==
    \E r \in Reqs :
        LET rq == req[r]
        IN /\ Done(rq) /\ rq.resp.status = 200 /\ Len(rq.targets) = 3
           /\ rq.evalLog = <<"ok", "panic", "ok">>
           /\ \E i, j \in 1..Len(rq.results) :
                /\ i < j
                /\ rq.results[i].target[1] = rq.targets[1]
                /\ rq.results[j].target[1] = rq.targets[3]

\* The requests answered before the lookup of rq, with the same key (the same
\* query), whose cacheTimeout had not run out at that lookup.
RecentSame(rq, sameOf(_)) ==
    {e \in served : /\ sameOf(e)
                    /\ e.n < rq.lookupNo
                    /\ rq.checkedAt <= e.at + e.ttl}

ValuesDiffer(a, b, k) == SeqToSet(ValuesOf(a, k)) # SeqToSet(ValuesOf(b, k))

OtherNames(a, b) == (FormKeys(a) \cup FormKeys(b)) \ IgnoredNames

\* C5 as stated: two query strings that differ only in the order of their
\* parameters, or in noCache, jsonp, _salt, _ts, _t, have the same key; two
\* that differ in the values of another parameter have different keys.
C5_KeyIgnoresOrder ==
    kc.pc = "done" =>
        /\ kc.edits \subseteq {"order", "orderSame", "ignored"} => kc.keyA = kc.keyB
        /\ (\E k \in OtherNames(kc.a, kc.b) : ValuesDiffer(kc.a, kc.b, k))
               => kc.keyA # kc.keyB

\* C5 as amended: the key is the same when the query strings differ only in
\* the order of parameters of different names, or in noCache, jsonp, _salt,
\* _ts, _t; the keys are equal exactly when every other parameter has the
\* same values in the same order in both (so they differ when the values of
\* one name come in another order).
C5_KeyIgnoresOrderOfNames ==
    kc.pc = "done" =>
        /\ kc.edits \subseteq {"order", "ignored"} => kc.keyA = kc.keyB
        /\ (kc.keyA = kc.keyB) <=>
               (\A k \in OtherNames(kc.a, kc.b) : ValuesOf(kc.a, k) = ValuesOf(kc.b, k))
        /\ \A i \in 1..Len(kc.keyA) : kc.keyA[i][1] \notin IgnoredNames

\* C5 witness: the second query string has the parameters of the first in
\* another order, and a _ts besides, and the keys are the same non-empty key.
C5_Witness ==
    /\ kc.pc = "done" /\ kc.edits = {"order", "ignored"}
    /\ Len(kc.a) = 2 /\ Len(kc.b) = 3 /\ kc.b[1] = kc.a[2] /\ kc.b[2] = kc.a[1]
    /\ kc.b[3][1] = "_ts"
    /\ kc.keyA = kc.keyB /\ Len(kc.keyA) = 2

TimedOutRets == {i \in 1..Len(mc.rets) : mc.rets[i].timedOut}

\* C8 as stated: get does not wait beyond the deadline; when client.Get had
\* not completed as the deadline fired, get returns (nil, false) through the
\* timeout branch and memcache_timeouts counts it once; get returns
\* (value, true) only when the fetch completed without error before.
C8_DeadlineFirstIsMiss ==
    /\ mc.pc = "parked" => mc.timer[mc.call] = "armed"
    /\ metrics.memcacheTimeouts = Cardinality(TimedOutRets)
    /\ \A i \in 1..Len(mc.rets) :
         LET ret == mc.rets[i]
         IN /\ (ret.fired /\ ret.late) => (ret.timedOut /\ ~ret.ok /\ ret.val = "")
            /\ ret.ok => (ret.bg = "exit" /\ ~mc.err[ret.call])

\* C8 as amended: get never stays parked once its deadline has fired or its
\* fetch has sent; it returns through the timeout branch, with (nil, false)
\* and one more memcache_timeouts, whenever the deadline was the only ready
\* case as its select decided (so whenever it was waiting in the select as
\* the deadline fired), and only when the deadline had fired; when the
\* fetch completes after the deadline fired but before get reaches its
\* select, either branch is taken. The goroutine of a timed-out get is not
\* stopped, its send never blocks, and its result is returned by no call:
\* call i returns once, (value, true) only with the value its own fetch
\* got without error before it returned.
C8_DeadlineBoundsGet ==
    /\ mc.pc = "parked" => (mc.timer[mc.call] = "armed" /\ mc.done[mc.call] = 0)
    /\ metrics.memcacheTimeouts = Cardinality(TimedOutRets)
    /\ \A c \in Calls : mc.bg[c] = "got" => mc.done[c] = 0
    /\ Len(mc.rets) = IF mc.pc \in {"idle", "off"} THEN mc.call ELSE mc.call - 1
    /\ \A i \in 1..Len(mc.rets) :
         LET ret == mc.rets[i]
         IN /\ ret.call = i
            /\ ret.timedOut => (~ret.ok /\ ret.val = "" /\ ret.fired /\ "timeout" \in ret.ready)
            /\ ret.ready = {"timeout"} => ret.timedOut
            /\ ~ret.timedOut => (ret.bg = "exit" /\ "done" \in ret.ready)
            /\ ret.ok <=> (~ret.timedOut /\ ~mc.err[i])
            /\ ret.ok => (ret.val = mc.item[i] /\ ret.val # "")

\* C8 witness: the first get timed out while its fetch was running; the
\* fetch completed afterwards with a value, which no call returned: the
\* second get returned the value its own fetch got.
C8_Witness ==
    /\ Len(mc.rets) = 2
    /\ mc.rets[1].timedOut /\ mc.rets[1].late /\ mc.rets[1].bg = "running"
    /\ mc.bg[1] = "exit" /\ mc.item[1] = "v1" /\ ~mc.err[1]
    /\ mc.rets[2].ok /\ mc.rets[2].val = "v2"
    /\ metrics.memcacheTimeouts = 1

\* The first target that does not parse, 0 when all do.
FirstBad(ts) ==
    IF AllParse(ts) THEN 0
    ELSE CHOOSE k \in 1..Len(ts) : ~ParseOk(ts[k]) /\ \A j \in 1..(k - 1) : ParseOk(ts[j])

\* The request went through its targets: it was neither answered from the
\* query cache nor turned down for its time range.
WentToTargets(rq) ==
    /\ Done(rq) /\ ~rq.hit /\ rq.lookupNo > 0
    /\ rq.resp # BadRequest("Invalid empty time range")

\* The message of a 400 response, <<>> for another response.
MessageOf(resp) ==
    IF resp.status = 400 /\ resp # BadRequest("Invalid empty time range")
    THEN resp.body[1] ELSE <<>>

\* What a request whose target k does not parse leaves behind, besides its
\* message: a 400 in plain text, the targets before k evaluated and none
\* after, no fetch for target k or a later one, no queryCache.set.
StoppedAtTarget(rq, k) ==
    /\ rq.resp.status = 400 /\ rq.resp.ctype = "text/plain"
    /\ Len(rq.evalLog) = k - 1
    /\ \A j \in 1..Len(rq.fetchLog) : rq.fetchLog[j].ti < k
    /\ rq.setLog = <<>>

\* C11 as stated: a target that does not parse (an error, or a remainder)
\* ends the request with a 400 whose message names the target, the parsed
\* prefix and the unparsed remainder; no later target is processed and
\* nothing is stored in the query cache.
C11_ParseErrorNamesRemainder ==
    \A r \in Reqs :
        LET rq == req[r]
            k == FirstBad(rq.targets)
            t == rq.targets[k]
            msg == SeqToSet(MessageOf(rq.resp))
        IN (WentToTargets(rq) /\ k > 0) =>
               /\ StoppedAtTarget(rq, k)
               /\ <<"Target", t>> \in msg
               /\ \E pre, rest \in {"x", ")", "scale(x,", "x)"} :
                      <<"Parsed so far", pre>> \in msg /\ <<"Could not parse", rest>> \in msg

\* C11 as amended: the message names the target, the parser's error when it
\* gave one, and the parsed prefix and the unparsed remainder when the
\* remainder is not empty (a parser error that leaves no remainder has
\* neither line); the rest as stated.
C11_ParseErrorMessage ==
    \A r \in Reqs :
        LET rq == req[r]
            k == FirstBad(rq.targets)
            t == rq.targets[k]
            pe == ParseExpr(t)
            msg == SeqToSet(MessageOf(rq.resp))
        IN /\ (WentToTargets(rq) /\ k > 0) =>
               /\ StoppedAtTarget(rq, k)
               /\ <<"Target", t>> \in msg
               /\ pe.err # "" <=> <<"Error", pe.err>> \in msg
               /\ pe.e # "" =>
                      (<<"Parsed so far", ParsedSoFar(t, pe.e)>> \in msg
                       /\ <<"Could not parse", pe.e>> \in msg)
               /\ pe.e = "" =>
                      ~\E x \in msg : x[1] \in {"Parsed so far", "Could not parse"}
           /\ (WentToTargets(rq) /\ k = 0) => rq.resp.status # 400

\* C11 witness: the second target of a request left a remainder: the
\* request ended with the 400 that names prefix and remainder, after the
\* first target had been fetched and evaluated, and before the third.
C11_Witness ==
    \E r \in Reqs :
        /\ WentToTargets(req[r]) /\ FirstBad(req[r].targets) = 2
        /\ Len(req[r].targets) = 3
        /\ req[r].resp.status = 400
        /\ <<"Parsed so far", "x">> \in SeqToSet(MessageOf(req[r].resp))
        /\ <<"Could not parse", ")">> \in SeqToSet(MessageOf(req[r].resp))
        /\ req[r].evalLog = <<"ok">> /\ Len(req[r].results) = 1

\* C12: a request whose format is none of json, protobuf, raw, csv, pickle,
\* png is answered with 400, never with 200, and stores nothing in the
\* query cache.
C12_BadFormatRejected ==
    \A r \in Reqs :
        LET rq == req[r]
        IN (Done(rq) /\ rq.lookupNo > 0 /\ rq.format \notin Formats) =>
               /\ rq.resp.status = 400
               /\ rq.setLog = <<>>

\* from and until of the request resolve to the same second at the time the
\* handler resolves them.
EmptyRange(rq) ==
    DateParamToEpoch(rq.from, rq.checkedAt - DaySeconds)
        = DateParamToEpoch(rq.until, rq.checkedAt)

\* C14: a request whose from and until resolve to the same second is
\* answered with the 400 "Invalid empty time range", calls neither Find nor
\* Render and stores nothing, whatever the caches hold.
C14_EmptyRangeRejected ==
    \A r \in Reqs :
        LET rq == req[r]
        IN (Done(rq) /\ rq.lookupNo > 0 /\ EmptyRange(rq)) =>
               /\ rq.resp = BadRequest("Invalid empty time range")
               /\ rq.findLog = <<>> /\ rq.renderLog = <<>> /\ rq.setLog = <<>>

\* The exchange went through findHandler and is over.
FindDone == fh.endpoint = "find" /\ fh.pc = "done" /\ fh.runs > 0

\* C13: a request without a required parameter is answered with 400 and
\* makes no zipper call: /render without a target, /metrics/find without a
\* query or with an empty one.
C13_MissingParameterRejected ==
    /\ \A r \in Reqs :
           LET rq == req[r]
           IN (Done(rq) /\ rq.lookupNo > 0 /\ rq.targets = <<>>) =>
                  /\ rq.resp.status = 400
                  /\ rq.findLog = <<>> /\ rq.renderLog = <<>>
    /\ (FindDone /\ fh.query = "") =>
           /\ fh.resp.status = 400
           /\ fh.finds = <<>>

\* The matches of a Find response whose last component no earlier match has.
RECURSIVE FirstOfText(_, _)
FirstOfText(matches, n) ==
    IF n = 0 THEN <<>>
    ELSE IF \E i \in 1..(n - 1) : TreeName(matches[i].path) = TreeName(matches[n].path)
         THEN FirstOfText(matches, n - 1)
         ELSE Append(FirstOfText(matches, n - 1), matches[n])

\* The exchange is a /metrics/find answered with the encoding of a Find
\* response in one of the given formats.
FindAnswered(formats) ==
    FindDone /\ fh.format \in formats /\ fh.finds # <<>> /\ fh.resp.status = 200

\* C15: for format treejson or json the output has one element per distinct
\* text, the first match with that text; the element's id is the full path
\* of that match, its text the last component, and leaf, allowChildren and
\* expandable are 1, 0, 0 for a leaf and 0, 1, 1 otherwise.
C15_TreejsonElements ==
    FindAnswered({"treejson", "json"}) =>
        LET kept == FirstOfText(ZipperMatches(fh.query), Len(ZipperMatches(fh.query)))
            tree == fh.resp.body[2]
        IN /\ Len(tree) = Len(kept)
           /\ \A i \in 1..Len(kept) :
                  /\ tree[i].id = Chars(kept[i].path)
                  /\ tree[i].text = TreeName(kept[i].path)
                  /\ tree[i].leaf = (IF kept[i].isLeaf THEN 1 ELSE 0)
                  /\ tree[i].allowChildren = (IF kept[i].isLeaf THEN 0 ELSE 1)
                  /\ tree[i].expandable = (IF kept[i].isLeaf THEN 0 ELSE 1)

\* C16: for format completer the output has one entry per match of the Find
\* response, in its order and with repeats; the entry's path is the match
\* path, is_leaf is "1" for a leaf and "0" otherwise, and name is the last
\* component of the path, also for a path without a dot.
C16_CompleterEntries ==
    FindAnswered({"completer"}) =>
        LET matches == ZipperMatches(fh.query)
            entries == fh.resp.body[2]
        IN /\ Len(entries) = Len(matches)
           /\ \A i \in 1..Len(matches) :
                  /\ entries[i].path = Chars(matches[i].path)
                  /\ entries[i].is_leaf = (IF matches[i].isLeaf THEN "1" ELSE "0")
                  /\ entries[i].name = TreeName(matches[i].path)

\* Nothing of the server was touched: no counter, no cache, no zipper call.
Untouched ==
    /\ \A r \in Reqs : req[r] = IdleReq
    /\ metrics = [requests |-> 0, requestCacheHits |-> 0, findRequests |-> 0,
                  findCacheHits |-> 0, renderRequests |-> 0, memcacheTimeouts |-> 0]
    /\ queryCache = <<>> /\ findCache = <<>>
    /\ lookups = 0 /\ tasks = <<>> /\ limiter = 0
    /\ fh.finds = <<>>

\* C17: an OPTIONS request to /render or /metrics/find is answered 200 with
\* the two CORS headers and the wrapped handler is never entered: no counter,
\* no cache access, no zipper call; for another method the same headers are
\* set and the wrapped handler is entered exactly once.
C17_CorsPreflight ==
    fh.pc # "idle" =>
        /\ fh.header = { <<"Access-Control-Allow-Origin", "*">>,
                         <<"Access-Control-Allow-Methods", "POST, GET, OPTIONS">> }
        /\ fh.method = "OPTIONS" =>
               /\ fh.pc = "done" /\ fh.resp.status = 200
               /\ fh.runs = 0 /\ arrivals = 0
               /\ Untouched
        /\ fh.method # "OPTIONS" =>
               /\ fh.runs = 1
               /\ fh.endpoint = "render" => arrivals = 1

\* An OPTIONS request to /render was answered.
C17_Witness ==
    fh.pc = "done" /\ fh.method = "OPTIONS" /\ fh.endpoint = "render" /\ fh.resp.status = 200

\* The metricMap a request's upstream calls alone give: per metric request,
\* the series of the leaves whose Render succeeded.
LogMap(log) ==
    LET got == {k \in 1..Len(log) : log[k].okPaths # <<>>}
    IN [f \in {log[k].fetch : k \in got} |->
          LET k == CHOOSE j \in got : log[j].fetch = f
          IN [i \in 1..Len(log[k].okPaths) |-> SeriesOf(log[k], log[k].okPaths[i])]]

\* The result list the targets up to k give over that metricMap.
RECURSIVE UpstreamResults(_, _)
UpstreamResults(rq, k) ==
    IF k = 0 THEN <<>>
    ELSE UpstreamResults(rq, k - 1)
         \o (IF EvalPanics(rq.targets[k]) THEN <<>>
             ELSE EvalExpr(TargetLabel(rq.targets[k], rq.maxDataPoints), rq.targets[k],
                           rq.from32, rq.until32, LogMap(rq.fetchLog)))

\* The find cache holds the encoding of the Find response of the metric.
FindStored(metric) == Holds(cacheType, findCache, metric, Marshal(GlobResponse(metric)))

\* C18: a cache failure is not fatal and behaves as a miss.  A fetch is
\* answered from the find cache only with the encoding of a Find response,
\* which the cache then holds; every other fetch calls Zipper.Find; the request ends with a 200
\* and, unless the query cache answered, its body is the encoding of the
\* results its upstream calls give, whatever the caches held or lost.
C18_CacheFailureIsMiss ==
    \A r \in Reqs :
        LET rq == req[r]
            log == rq.fetchLog
        IN /\ \A k \in 1..Len(log) : log[k].cached => FindStored(log[k].fetch.metric)
           /\ Len(rq.findLog) = Cardinality({k \in 1..Len(log) : ~log[k].cached})
           /\ \A k \in 1..Len(log) :
                  ~log[k].cached => log[k].fetch.metric \in SeqToSet(rq.findLog)
           /\ Done(rq) =>
                  /\ rq.resp.status = 200
                  /\ ~rq.hit =>
                         rq.resp = WriteResponse(
                                      MarshalBody(rq.format,
                                                  UpstreamResults(rq, Len(rq.targets))),
                                      rq.format, rq.jsonp)

\* C18 witness: over memcached, the find cache still holds the undecodable
\* bytes for x, a request that uses the caches called Zipper.Find for x and
\* was answered with the series of x.
C18_Witness ==
    \E r \in Reqs :
        LET rq == req[r]
        IN /\ cacheType = "memcache" /\ Done(rq) /\ rq.useCache /\ ~rq.hit
           /\ McKey("x") \in DOMAIN findCache /\ findCache[McKey("x")].val = Undecodable
           /\ rq.findLog # <<>> /\ rq.findLog[1] = "x"
           /\ rq.resp.status = 200 /\ rq.results # <<>>

\* The slots of bucket i when n values go to a point.
Bucket(slots, n, i) ==
    {j \in 1..Len(slots) : (i - 1) * n < j /\ j <= i * n}

\* The sum of the values of a set of slots.
RECURSIVE SumOver(_, _)
SumOver(slots, js) ==
    IF js = {} THEN 0
    ELSE LET j == CHOOSE x \in js : TRUE
         IN slots[j].v.num + SumOver(slots, js \ {j})

\* The mean of the slots of js that are neither absent nor NaN; NaN when
\* there is none.
MeanOver(slots, js) ==
    LET good == {j \in js : ~slots[j].absent /\ ~slots[j].v.nan}
    IN IF good = {} THEN NaN
       ELSE [nan |-> FALSE, num |-> SumOver(slots, good), den |-> Cardinality(good)]

\* The consolidation of a series with n values to a point: ceil(len / n)
\* buckets for n > 1, one per value for n = 0 or 1.
Consolidation(slots, n) ==
    LET size == IF n > 1 THEN n ELSE 1
        len == (Len(slots) + size - 1) \div size
    IN [i \in 1..len |->
          IF n > 1 THEN MeanOver(slots, Bucket(slots, n, i))
          ELSE IF slots[i].absent THEN NaN ELSE slots[i].v]

\* C19: for every series and every valuesPerPoint, AggregatedValues()
\* returns ceil(len(values)/valuesPerPoint) buckets when valuesPerPoint > 1
\* and len(values) values when it is 0 or 1; a bucket is the mean of its
\* values that are neither absent nor NaN, and NaN when it has none.
C19_AggregatedValuesShape ==
    (md.pc = "on" /\ md.last = "call") =>
        LET n == md.valuesPerPoint
        IN /\ Len(md.ret.v) = (IF n > 1 THEN (Len(md.slots) + n - 1) \div n
                               ELSE Len(md.slots))
           /\ md.ret.v = Consolidation(md.slots, n)

\* C20: a non-nil aggregatedValues is the consolidation of the values with
\* the series' current valuesPerPoint, whatever the order in which
\* valuesPerPoint was set and AggregatedValues() called.
C20_AggregatedValuesCurrent ==
    (md.pc = "on" /\ md.aggregatedValues.set) =>
        md.aggregatedValues.v = Consolidation(md.slots, md.valuesPerPoint)

\* The smallest k with k * b >= a.
LeastMultiple(a, b) == CHOOSE k \in 0..a : k * b >= a /\ \A j \in 0..(k - 1) : j * b < a

\* C21: after consolidateDataPoints the series has valuesPerPoint >= 1: 1
\* when its data points fit the drawable width, ceil(numberOfDataPoints /
\* drawablePixels) otherwise, so that the series has at most as many
\* consolidated points as there are drawable pixels; and AggregatedTimeStep()
\* is stepTime x valuesPerPoint, stepTime when valuesPerPoint is 0 or 1.
C21_ConsolidationFitsWidth ==
    /\ (md.pc = "on" /\ md.last = "consolidate") =>
           LET n == md.timeRange \div md.stepTime
               vpp == md.valuesPerPoint
           IN /\ vpp >= 1
              /\ vpp = (IF n <= md.numberOfPixels THEN 1
                        ELSE LeastMultiple(n, md.numberOfPixels))
              /\ LeastMultiple(Len(md.slots), vpp) <= md.numberOfPixels
    /\ md.pc = "on" =>
           AggregatedTimeStep(md) = (IF md.valuesPerPoint \in {0, 1} THEN md.stepTime
                                     ELSE md.stepTime * md.valuesPerPoint)

\* The query string without its jsonp parameters.
RECURSIVE WithoutJsonp(_)
WithoutJsonp(q) ==
    IF q = <<>> THEN <<>>
    ELSE (IF Head(q)[1] = "jsonp" THEN <<>> ELSE <<Head(q)>>) \o WithoutJsonp(Tail(q))

\* The jsonp parameter of a query string.
JsonpParam(q) == FormValue(ParseForm(q), "jsonp")

\* C22: the query cache holds the encoded body, without the JSONP wrapping.
\* Requests that differ only in jsonp have one cache key; a format=json
\* response, computed or taken from the cache, is the body wrapped in the
\* callback of the request answered, as text/javascript, and the plain body
\* as application/json when the request has no jsonp.
C22_JsonpOutsideCache ==
    /\ \A e1, e2 \in served :
           WithoutJsonp(e1.query) = WithoutJsonp(e2.query) => e1.key = e2.key
    /\ \A r \in Reqs :
           LET rq == req[r]
           IN /\ \A k \in 1..Len(rq.setLog) :
                     /\ rq.setLog[k].body = MarshalBody(rq.format, rq.results)
                     /\ \A i \in 1..Len(rq.setLog[k].key) : rq.setLog[k].key[i][1] # "jsonp"
              /\ (Done(rq) /\ rq.resp.status = 200 /\ rq.format = "json") =>
                     /\ rq.resp.jsonp = JsonpParam(rq.query)
                     /\ rq.resp.ctype = (IF JsonpParam(rq.query) # "" THEN "text/javascript"
                                         ELSE "application/json")
                     /\ ~rq.hit => rq.resp.body = MarshalBody("json", rq.results)
                     /\ rq.hit => \E e \in served :
                                     /\ e.key = rq.cacheKey /\ e.stored /\ e.n < rq.lookupNo
                                     /\ e.body = rq.resp.body
                                     /\ e.body[1] = "json"

\* C22 witness: a request with the callback cb2 is answered from the entry
\* that a request with the callback cb stored, wrapped in cb2.
C22_Witness ==
    \E r \in Reqs : \E e \in served :
        /\ Done(req[r]) /\ req[r].hit /\ JsonpParam(req[r].query) = "cb2"
        /\ req[r].resp.jsonp = "cb2" /\ req[r].resp.ctype = "text/javascript"
        /\ e.stored /\ JsonpParam(e.query) = "cb" /\ e.key = req[r].cacheKey
        /\ e.body = req[r].resp.body

\* The paths of the leaves of a match list, in its order.
RECURSIVE LeafPaths(_)
LeafPaths(ms) ==
    IF ms = <<>> THEN <<>>
    ELSE (IF Head(ms).isLeaf THEN <<Head(ms).path>> ELSE <<>>) \o LeafPaths(Tail(ms))

\* The fetches of the request that are over: all when the coordinator is
\* between two fetches or has ended, all but the last otherwise.
FinishedFetches(rq) ==
    IF Between(rq) \/ Done(rq) THEN 1..Len(rq.fetchLog) ELSE 1..(Len(rq.fetchLog) - 1)

\* What C23 says of a fetch apart from the tasks left: one Render task per
\* leaf and none for another match, one value sent per task, a channel that
\* holds them all, and `leaves` values received before the coordinator goes on.
FanoutCounts(rq) ==
    /\ \A k \in FinishedFetches(rq) :
           LET rec == rq.fetchLog[k]
           IN /\ rec.find # "fail" => rec.renders = LeafPaths(ZipperMatches(rec.fetch.metric))
              /\ rec.find = "fail" => rec.renders = <<>>
              /\ Len(rec.okPaths) + Len(rec.failPaths) = Len(rec.renders)
              /\ NoDup(rec.okPaths \o rec.failPaths)
              /\ SeqToSet(rec.okPaths \o rec.failPaths) = SeqToSet(rec.renders)
              /\ rec.recvOk = Len(rec.okPaths)
    /\ rq.pc \in {"fanout", "enter", "collect"} =>
           /\ rq.leaves <= rq.rchCap
           /\ rq.got + Len(rq.rch) <= rq.leaves
    /\ (Between(rq) \/ Done(rq)) => rq.rch = <<>> /\ rq.got = rq.leaves

\* A Render task whose Zipper.Render call returned can send at once.
SendNeverBlocks ==
    \A i \in 1..Len(tasks) :
        tasks[i].pc = "render" => Len(req[tasks[i].req].rch) < req[tasks[i].req].rchCap

\* C23 as stated: one Render task per leaf, one value per task, a channel as
\* large as the tasks launched, exactly `leaves` values received; when the
\* next fetch or the evaluation starts no value is in the channel and no
\* task of the fetch is still running.
C23_NoTaskLeftRunning ==
    /\ SendNeverBlocks
    /\ \A r \in Reqs :
           /\ FanoutCounts(req[r])
           /\ Between(req[r]) => \A i \in 1..Len(tasks) : tasks[i].req # r

\* C23: the same, but a task of the fetch may still be there when the
\* coordinator goes on: it has sent its value and has only Limiter.leave()
\* left to do.
C23_FanoutComplete ==
    /\ SendNeverBlocks
    /\ \A r \in Reqs :
           /\ FanoutCounts(req[r])
           /\ Between(req[r]) =>
                  \A i \in 1..Len(tasks) : tasks[i].req = r => tasks[i].pc = "sent"

\* C23 witness: the coordinator has received the values of the two leaves
\* of a.* and goes on while a task of that fetch has not yet left the limiter.
C23_Witness ==
    \E r \in Reqs : \E i \in 1..Len(tasks) :
        /\ Between(req[r]) /\ req[r].fetchLog # <<>>
        /\ Len(Last(req[r].fetchLog).renders) = 2 /\ req[r].got = 2 /\ req[r].rch = <<>>
        /\ tasks[i].req = r /\ tasks[i].pc = "sent"


\* The fetches of a request for one MetricRequest, and the leaves whose Render
\* succeeded in any of them.
FetchesOf(rq, mf) == {k \in 1..Len(rq.fetchLog) : rq.fetchLog[k].fetch = mf}
OkLeaves(rq, mf) == UNION {SeqToSet(rq.fetchLog[k].okPaths) : k \in FetchesOf(rq, mf)}
RECURSIVE OkCountIn(_, _)
OkCountIn(rq, ks) ==
    IF ks = {} THEN 0
    ELSE LET k == CHOOSE x \in ks : TRUE
         IN Len(rq.fetchLog[k].okPaths) + OkCountIn(rq, ks \ {k})
OkCount(rq, mf) == OkCountIn(rq, FetchesOf(rq, mf))
Fetched(rq) == {rq.fetchLog[k].fetch : k \in 1..Len(rq.fetchLog)}
EntryExact(rq, mf) ==
    /\ mf \in DOMAIN rq.metricMap
    /\ Len(rq.metricMap[mf]) = OkCount(rq, mf)
    /\ NoDup(rq.metricMap[mf])
    /\ SeqToSet(rq.metricMap[mf]) = {Series(p, mf.from, mf.until) : p \in OkLeaves(rq, mf)}

\* C24 as stated: once the fetch of a MetricRequest has finished, metricMap
\* has an entry for it that holds exactly the series of the leaves whose
\* Render succeeded, one per leaf, and the entry is an empty list when no
\* leaf was found or every Render failed.
C24_EntryAfterEveryFetch ==
    \A r \in Reqs :
        Between(req[r]) =>
            \A mf \in Fetched(req[r]) :
                IF OkLeaves(req[r], mf) = {}
                THEN mf \in DOMAIN req[r].metricMap /\ req[r].metricMap[mf] = <<>>
                ELSE EntryExact(req[r], mf)

\* C24: once the fetch of a MetricRequest has finished, metricMap holds for
\* it exactly the series of the leaves whose Render succeeded, one per leaf,
\* none lost and none twice, in whatever order the Render tasks completed;
\* when no leaf was found or every Render failed metricMap has no entry for
\* the MetricRequest, and metricMap has entries for fetched metrics only.
C24_EntryHoldsSucceededLeaves ==
    \A r \in Reqs :
        Between(req[r]) =>
            /\ DOMAIN req[r].metricMap \subseteq Fetched(req[r])
            /\ \A mf \in Fetched(req[r]) :
                   IF OkLeaves(req[r], mf) = {}
                   THEN mf \notin DOMAIN req[r].metricMap
                   ELSE EntryExact(req[r], mf)

\* C24 witness: the two leaves of a.* were rendered at the same time and the
\* second one answered first, so that the entry holds a.c before a.b, and
\* the fetch of a later metric, whose Render failed, left no entry.
C24_Witness ==
    \E r \in Reqs :
        LET rq == req[r]
        IN /\ Between(rq) /\ Len(rq.fetchLog) = 2
           /\ rq.fetchLog[1].renders = <<"a.b", "a.c">>
           /\ rq.fetchLog[1].okPaths = <<"a.c", "a.b">>
           /\ rq.metricMap[rq.fetchLog[1].fetch]
                = <<SeriesOf(rq.fetchLog[1], "a.c"), SeriesOf(rq.fetchLog[1], "a.b")>>
           /\ rq.fetchLog[2].failPaths # <<>>
           /\ rq.fetchLog[2].fetch \notin DOMAIN rq.metricMap


\* What only the coordinating goroutine of a request may touch.
CoordFields(rq) == <<rq.metricMap, rq.results, rq.zipperRequests>>
\* A step of the coordinating goroutine of request r.
CoordStep(r) == (\E q \in AllQueries : Arrive(r, q)) \/ CoordProgress(r)

\* C25: a step of a Render task changes neither metricMap nor the result
\* list nor the stats counter of any request, it changes at most the channel
\* of its own fetch; metricMap, the results and the counter of a request
\* change only in a step of that request's coordinating goroutine, which
\* leaves those of every other request as they are.
C25_MetricMapCoordinatorOnly ==
    [][ /\ TaskStep => \A r \in Reqs : CoordFields(req'[r]) = CoordFields(req[r])
        /\ \A i \in 1..Len(tasks) :
               RenderReturn(i) => \A r \in Reqs : r # tasks[i].req => req'[r] = req[r]
        /\ \A r \in Reqs :
               CoordFields(req'[r]) # CoordFields(req[r]) =>
                   /\ CoordStep(r)
                   /\ \A s \in Reqs : s # r => req'[s] = req[s] ]_vars

\* C25 witness: two requests each hold a metricMap of their own, the one
\* with both series of a.*, the other with the first only while the task of
\* its second leaf has sent its series, which is still in the channel.
C25_Witness ==
    \E r, s \in Reqs :
        /\ r # s
        /\ req[r].metricMap # <<>> /\ req[s].metricMap # <<>>
        /\ req[r].metricMap # req[s].metricMap
        /\ req[s].pc = "collect" /\ req[s].rch # <<>> /\ Head(req[s].rch).ok
        /\ \E i \in 1..Len(tasks) : tasks[i].req = s /\ tasks[i].pc = "sent"


\* The coordinator of request r waits in Limiter.enter(): no permit is free.
BlockedInEnter(r) == req[r].pc = "enter" /\ ~LimiterCanEnter(limiter)
\* A Render task with a permit waits for nothing but its own call: when the
\* call returns the channel has room for its value, and leave() never waits.
TaskNeverWaits ==
    \A i \in 1..Len(tasks) :
        (tasks[i].pc = "render") => Len(req[tasks[i].req].rch) < req[tasks[i].req].rchCap

\* C26: with concurrent requests and globs of more leaves than the limiter
\* has permits, when every Zipper.Find and Zipper.Render call returns in the
\* end, every request that came in writes its response in the end; a task
\* that holds a permit waits for nothing but its call, and a coordinator
\* that waits in Limiter.enter() gets its permit in the end.
C26_FanoutNeverDeadlocks ==
    /\ []TaskNeverWaits
    /\ \A r \in Reqs : Running(req[r]) ~> Done(req[r])
    /\ \A r \in Reqs : BlockedInEnter(r) ~> (req[r].pc # "enter")

\* C26 witness: both coordinators wait in Limiter.enter() for the second
\* leaf of their glob while the only permit is held by a task.
C26_Witness ==
    /\ \A r \in Reqs : BlockedInEnter(r) /\ req[r].leaves = 2
    /\ Len(tasks) = Capacity


\* C27: the permits are balanced.  Every permit taken is held by exactly one
\* Render goroutine, so that with no such goroutine left every permit is
\* free; the limiter changes only when a coordinator enters, which launches
\* one task, and when a task leaves, which ends it, whether its Render
\* succeeded or failed; no other step, a 400 after earlier fetches included,
\* takes or returns a permit.
C27_PermitsBalanced ==
    /\ [](limiter = Len(tasks) /\ limiter >= 0 /\ limiter <= Capacity)
    /\ [][ /\ (\E r \in Reqs : Launch(r)) <=>
                  (limiter' = limiter + 1 /\ Len(tasks') = Len(tasks) + 1)
           /\ (\E i \in 1..Len(tasks) : Leave(i)) <=>
                  (limiter' = limiter - 1 /\ Len(tasks') = Len(tasks) - 1)
           /\ limiter' \in {limiter - 1, limiter, limiter + 1}
           /\ (\E i \in 1..Len(tasks) : RenderReturn(i)) => limiter' = limiter
           /\ \A r \in Reqs :
                  (req'[r].pc = "done" /\ req[r].pc # "done") =>
                      limiter' = limiter /\ tasks' = tasks ]_vars

\* C27 witness: a request was answered with 400 for its second target after
\* its first target had been fetched, the task of that fetch, whose Render
\* had failed, has left, and every permit is free.
C27_Witness ==
    \E r \in Reqs :
        /\ Done(req[r]) /\ req[r].resp.status = 400
        /\ Len(req[r].fetchLog) = 1 /\ req[r].fetchLog[1].failPaths # <<>>
        /\ tasks = <<>> /\ limiter = 0


\* The query string without its noCache parameters.
RECURSIVE WithoutNoCache(_)
WithoutNoCache(q) ==
    IF q = <<>> THEN <<>>
    ELSE (IF Head(q)[1] = "noCache" THEN <<>> ELSE <<Head(q)>>) \o WithoutNoCache(Tail(q))

\* An earlier request with noCache left a body under the key of rq.
StoredByNoCache(rq) ==
    {e \in served : ~e.useCache /\ e.stored /\ e.key = rq.cacheKey /\ e.n < rq.lookupNo}

\* What a request with a truthy noCache does itself: no answer from the query
\* cache, a Zipper.Find for every fetch and none taken from the find cache,
\* every Find response written to the find cache, a non-empty result written
\* to the query cache under the key of the same request without noCache.
NoCacheRequest(rq) ==
    /\ ~rq.hit
    /\ Len(rq.findLog) = Len(rq.fetchLog)
    /\ \A k \in 1..Len(rq.fetchLog) :
           /\ ~rq.fetchLog[k].cached
           /\ rq.findLog[k] = rq.fetchLog[k].fetch.metric
    /\ \A k \in FinishedFetches(rq) :
           rq.fetchLog[k].find = "ok" =>
               /\ \E j \in 1..Len(rq.findSets) :
                      rq.findSets[j] = [key |-> rq.fetchLog[k].fetch.metric,
                                        val |-> Marshal(GlobResponse(rq.fetchLog[k].fetch.metric)),
                                        ttl |-> FindCacheTTL]
               /\ cacheType = "mem" => FindStored(rq.fetchLog[k].fetch.metric)
    /\ rq.cacheKey = CacheKey(WithoutNoCache(rq.query))
    /\ (Done(rq) /\ rq.resp.status = 200 /\ rq.results # <<>>) =>
           /\ Len(rq.setLog) = 1
           /\ rq.setLog[1].key = CacheKey(WithoutNoCache(rq.query))
           /\ rq.setLog[1].body = rq.resp.body
           /\ cacheType = "mem" => Holds(cacheType, queryCache, rq.cacheKey, rq.resp.body)

\* While a request with noCache is served neither hit counter moves.
NoCacheCountsNoHit ==
    \A r \in Reqs :
        (Running(req[r]) /\ ~req[r].useCache) =>
            /\ metrics'.requestCacheHits = metrics.requestCacheHits
            /\ metrics'.findCacheHits = metrics.findCacheHits

C29_FetchGoroutineEnds ==
    /\ [](\A c \in Calls :
            /\ mc.done[c] \in {0, 1}
            /\ mc.bg[c] = "got" => mc.done[c] = 0
            /\ mc.bg[c] \in {"none", "running", "got"} => mc.done[c] = 0)
    /\ \A c \in Calls : (mc.bg[c] = "got") ~> (mc.bg[c] = "exit")
    /\ [](/\ Len(mc.rets) = (IF mc.pc \in {"idle", "off"} THEN mc.call ELSE mc.call - 1)
          /\ metrics.memcacheTimeouts = Cardinality(TimedOutRets)
          /\ metrics.memcacheTimeouts <= Len(mc.rets)
          /\ \A i \in 1..Len(mc.rets) :
                 /\ mc.rets[i].call = i
                 /\ mc.rets[i].timedOut => "timeout" \in mc.rets[i].ready
                 /\ ~mc.rets[i].timedOut => "done" \in mc.rets[i].ready)
    /\ [][ /\ Len(mc'.rets) <= Len(mc.rets) + 1
           /\ metrics'.memcacheTimeouts - metrics.memcacheTimeouts
                  \in {0, Len(mc'.rets) - Len(mc.rets)} ]_vars

\* C29 witness: two gets found both cases ready at their select; the first
\* took the deadline and the second the completion, each returned once, one
\* timeout was counted, and both goroutines have ended.
C29_Witness ==
    /\ Len(mc.rets) = 2 /\ mc.pc = "idle"
    /\ mc.rets[1].ready = {"timeout", "done"} /\ mc.rets[1].timedOut
    /\ mc.rets[2].ready = {"timeout", "done"} /\ ~mc.rets[2].timedOut
    /\ metrics.memcacheTimeouts = 1
    /\ \A c \in Calls : mc.bg[c] = "exit"


\* The coordinator is in the loop over the targets, or has just left it.
InTargets(rq) ==
    rq.pc \in {"target", "metric", "finding", "fanout", "enter", "collect", "eval", "encode"}
\* The place in the request of the target a result series comes from.
TargetIndex(rq, label) ==
    CHOOSE k \in 1..Len(rq.targets) : TargetLabel(rq.targets[k], rq.maxDataPoints) = label
\* The fetch is one the target asks for, under the window of its metric
\* request shifted by the window of the request.
FetchOfTarget(rq, rec) ==
    /\ rec.ti \in 1..Len(rq.targets)
    /\ \E j \in 1..Len(ExprMetrics(rq.targets[rec.ti])) :
           LET m == ExprMetrics(rq.targets[rec.ti])[j]
           IN rec.fetch = MetricRequest(m.metric, m.from + rq.from32, m.until + rq.until32)

\* The order of things in a request, state by state: the targets before the
\* current one are evaluated and no other, every fetch so far is for the
\* current target or an earlier one, in that order, and under the shifted
\* window; a Render call runs only under the window of the current fetch and
\* none runs when a target is evaluated or the next one parsed; the results
\* are in the order of the targets.
TargetsInOrder(r) ==
    LET rq == req[r]
    IN /\ InTargets(rq) =>
            /\ Len(rq.evalLog) = rq.ti - 1
            /\ \A k \in 1..Len(rq.fetchLog) :
                   /\ rq.fetchLog[k].ti <= rq.ti
                   /\ FetchOfTarget(rq, rq.fetchLog[k])
                   /\ \A j \in 1..k : rq.fetchLog[j].ti <= rq.fetchLog[k].ti
            /\ \A k \in 1..Len(rq.renderLog) :
                   \E j \in 1..Len(rq.fetchLog) :
                       /\ rq.renderLog[k][1] \in SeqToSet(rq.fetchLog[j].renders)
                       /\ rq.renderLog[k][2] = rq.fetchLog[j].fetch.from
                       /\ rq.renderLog[k][3] = rq.fetchLog[j].fetch.until
            /\ \A i \in 1..Len(tasks) :
                   (tasks[i].req = r /\ tasks[i].pc = "render") =>
                       /\ rq.pc \in {"fanout", "enter", "collect"}
                       /\ Last(rq.fetchLog).ti = rq.ti
                       /\ tasks[i].from = rq.mfetch.from /\ tasks[i].until = rq.mfetch.until
            /\ rq.pc \in {"eval", "target", "encode"} => rq.rch = <<>>
       /\ (InTargets(rq) \/ Done(rq)) =>
            /\ \A i \in 1..Len(rq.results) :
                   /\ \E k \in 1..Len(rq.targets) :
                          rq.results[i].target = TargetLabel(rq.targets[k], rq.maxDataPoints)
                   /\ \A j \in 1..i :
                          TargetIndex(rq, rq.results[j].target)
                              <= TargetIndex(rq, rq.results[i].target)
       /\ (Done(rq) /\ rq.resp.status = 200 /\ ~rq.hit) =>
            rq.resp.body = MarshalBody(rq.format, rq.results)

\* A step of request r in the loop: the evaluation of target ti adds, at the
\* end of the results, what evalExpr gives under (from32, until32) over the
\* metricMap of that moment, and only then is the next target looked at; no
\* other step changes the results.
EvalThenNext(r) ==
    LET a == req[r]
        b == req'[r]
    IN /\ (a.pc = "eval" /\ b # a) =>
            /\ b.pc = "target" /\ b.ti = a.ti + 1
            /\ b.results = a.results \o
                 (IF Last(b.evalLog) = "panic" THEN <<>>
                  ELSE EvalExpr(TargetLabel(a.targets[a.ti], a.maxDataPoints),
                                a.targets[a.ti], a.from32, a.until32, a.metricMap))
       /\ (b.results # a.results) => (a.pc = "eval" \/ b.pc = "lookup")
       /\ (InTargets(a) /\ InTargets(b) /\ b.ti # a.ti) => (a.pc = "eval" /\ b.ti = a.ti + 1)

\* C30: the targets of a request are processed strictly in the order given.
\* The Find and Render calls of the metrics of target k are issued and have
\* returned before target k is evaluated, and that before target k+1 is
\* parsed; each fetch uses the window (m.from + from32, m.until + until32)
\* and the evaluation (from32, until32); the response holds the series of
\* target 1, then those of target 2, and so on.
C30_TargetsInOrder ==
    /\ [](\A r \in Reqs : TargetsInOrder(r))
    /\ [][\A r \in Reqs : EvalThenNext(r)]_vars

\* C30 witness: a request for x and for timeShift(x,-1h) fetched x under the
\* window of the request for the first target and under the window an hour
\* earlier for the second, and answered with the series of the first target,
\* then that of the second.
C30_Witness ==
    \E r \in Reqs :
        LET rq == req[r]
        IN /\ Done(rq) /\ rq.resp.status = 200
           /\ rq.targets = <<"x", "timeShift(x,-1h)">>
           /\ rq.evalLog = <<"ok", "ok">>
           /\ Len(rq.fetchLog) = 2
           /\ rq.fetchLog[1].ti = 1 /\ rq.fetchLog[2].ti = 2
           /\ rq.fetchLog[1].fetch = MetricRequest("x", rq.from32, rq.until32)
           /\ rq.fetchLog[2].fetch
                = MetricRequest("x", rq.from32 - HourShift, rq.until32 - HourShift)
           /\ Len(rq.results) = 2
           /\ rq.results[1].target = TargetLabel("x", rq.maxDataPoints)
           /\ rq.results[1].series.from = rq.from32
           /\ rq.results[2].target = TargetLabel("timeShift(x,-1h)", rq.maxDataPoints)
           /\ rq.results[2].series.from = rq.from32 - HourShift

====
